---- MODULE Spec2Model ----
(***************************************************************************)
(* Model of synctui's reconciliation engine (src/src/tui/state.rs): the    *)
(* reload worker, the event handler, the mutation operations and the       *)
(* shared view-model, running against a Syncthing daemon.                  *)
(***************************************************************************)
EXTENDS Naturals, Sequences, FiniteSets, Bags, TLC

\* ------------------------------------------------------------------ bounds
\* user operations (add_foler, remove_folder, accept_device) per run of SpecOps
MaxOps == 2
\* accept_device calls per run of SpecAccept
MaxAccepts == 1
\* gateway calls that may fail per run
MaxFail == 2
\* spontaneous daemon-side changes (device connects / disconnects) per run
MaxEnv == 1
\* daemon-side changes of the pending lists per run of SpecPending
MaxOffers == 3
\* daemon-side changes per run of SpecBurst: enough to fill the reload
\* channel and then the event channel
MaxBurst == 101
MaxCount == 2      \* entries of a pending list

\* ------------------------------------------------------------ program data
\* capacity of the reload channel
ReloadCap == 10
\* capacity of the event channel (a broadcast channel)
EventCap == 100

None == "none"
LocalId == "local"
DeviceIds == {"devX", "devY"}
FolderIds == {"f1", "f2"}

\* DeviceStatus
UpToDate == [tag |-> "UpToDate", pct |-> 0]
Disconnected == [tag |-> "Disconnected", pct |-> 0]
Syncing(p) == [tag |-> "Syncing", pct |-> p]

\* Reload
\* origin: the mutation task that requested the reload (history only)
Job(kind, f, d) == [kind |-> kind, folder_id |-> f, device_id |-> d, origin |-> None]
ReloadID == Job("ID", None, None)
ReloadConfiguration == Job("Configuration", None, None)
ReloadPendingDevices == Job("PendingDevices", None, None)
ReloadPendingFolders == Job("PendingFolders", None, None)
ReloadConnections == Job("Connections", None, None)
ReloadCompletion(f, d) == Job("Completion", f, d)

\* ------------------------------------------------------------- sequences
RECURSIVE SeqToSet(_)
SeqToSet(s) == IF s = <<>> THEN {} ELSE {Head(s)} \cup SeqToSet(Tail(s))

RECURSIVE SetToSeq(_)
\* some fixed enumeration of a finite set (the iteration order of a map)
SetToSeq(S) ==
    IF S = {} THEN <<>>
    ELSE LET x == CHOOSE y \in S : TRUE IN <<x>> \o SetToSeq(S \ {x})

Ids(s) == [i \in DOMAIN s |-> s[i].id]
IdSet(s) == {s[i].id : i \in DOMAIN s}

RemoveAt(s, i) == SubSeq(s, 1, i - 1) \o SubSeq(s, i + 1, Len(s))

\* index of the first element with identity id, 0 if there is none
\* (Iterator::find)
FindIdx(s, id) ==
    IF \E i \in DOMAIN s : s[i].id = id
    THEN CHOOSE i \in DOMAIN s : s[i].id = id /\ \A j \in 1..(i - 1) : s[j].id # id
    ELSE 0

\* ------------------------------------------------------------------ state
VARIABLES
    daemon,     \* the Syncthing daemon: config, pending lists, connections, emitted events
    inner,      \* InnerState behind State.inner (the view-model)
    reloadQ,    \* the reload channel (reload_tx / reload_rx), oldest first
    sending,    \* tasks spawned by State::reload that have not sent yet (a bag of jobs)
    worker,     \* position of listen_to_reload: pc, current job, gateway response
    relay,      \* the event subscription task (get_events): alive, since, skip_old
    eventCh,    \* the event channel (event_tx / event_rx), oldest first
    handler,    \* position of handle_event: pc and the job it is sending
    calls,      \* mutation tasks awaiting their gateway response (a bag)
    hist,       \* history: tickets, counters of calls / merges / notifications
    budget,     \* remaining user operations, gateway failures, daemon changes
    last,       \* the step taken last and its outcome
    app         \* App of tui/app.rs: its own store, error slot and reload worker

vars == <<daemon, inner, reloadQ, sending, worker, relay, eventCh, handler,
          calls, hist, budget, last, app>>

\* ---------------------------------------------------------------- the store
\* impl From<DeviceConfiguration> for Device
DeviceFrom(id) == [id |-> id, connected |-> Disconnected]

\* impl From<FolderConfiguration> for Folder
FolderFrom(f) == [id |-> f.id, devices |-> f.devices, completion |-> 100]

\* InnerState::default
InnerDefault ==
    [folders |-> <<>>, devices |-> <<>>, pending_folders |-> <<>>,
     pending_devices |-> <<>>, events |-> <<>>, error |-> None, id |-> ""]

\* update_from_configuration without the two clear() calls
update_from_configuration_noclear(st, conf) ==
    [st EXCEPT !.devices = @ \o [i \in DOMAIN conf.devices |-> DeviceFrom(conf.devices[i])],
               !.folders = @ \o [i \in DOMAIN conf.folders |-> FolderFrom(conf.folders[i])]]

\* InnerState::update_from_configuration
update_from_configuration(st, conf) ==
    [st EXCEPT !.devices = [i \in DOMAIN conf.devices |-> DeviceFrom(conf.devices[i])],
               !.folders = [i \in DOMAIN conf.folders |-> FolderFrom(conf.folders[i])]]

\* set_pending_devices that clears the pending folders with the devices
set_pending_devices_both(st, pending) ==
    [st EXCEPT !.pending_devices = SetToSeq(pending), !.pending_folders = <<>>]

\* InnerState::set_pending_devices
set_pending_devices(st, pending) ==
    [st EXCEPT !.pending_devices = SetToSeq(pending)]

\* the inner loop of set_pending_folders: one entry (introducer, folder) per
\* offerer of the folder
RECURSIVE OffersOf(_, _)
OffersOf(folder_id, introducers) ==
    IF introducers = <<>> THEN <<>>
    ELSE << <<Head(introducers), folder_id>> >> \o OffersOf(folder_id, Tail(introducers))

\* the outer loop of set_pending_folders over the fetched folders
RECURSIVE PushOffers(_, _, _)
PushOffers(acc, pending, folder_ids) ==
    IF folder_ids = <<>> THEN acc
    ELSE PushOffers(acc \o OffersOf(Head(folder_ids), SetToSeq(pending[Head(folder_ids)])),
                    pending, Tail(folder_ids))

\* set_pending_folders without the clear() call
set_pending_folders_noclear(st, pending) ==
    [st EXCEPT !.pending_folders = PushOffers(@, pending, SetToSeq(DOMAIN pending))]

\* InnerState::set_pending_folders; pending maps each offered folder to the
\* devices that offer it (PendingFolders.folders[..].offered_by)
set_pending_folders(st, pending) ==
    [st EXCEPT !.pending_folders = PushOffers(<<>>, pending, SetToSeq(DOMAIN pending))]

\* get_pending_device that finds every device
get_pending_device_any(st, device_id) == TRUE

\* InnerState::get_pending_device: TRUE iff Ok
get_pending_device(st, device_id) ==
    \E i \in DOMAIN st.pending_devices : st.pending_devices[i] = device_id

\* InnerState::get_device / get_device_mut: index of the device, 0 for UnknownDevice
get_device_mut(st, device_id) == FindIdx(st.devices, device_id)

\* get_folder_mut that falls back on the first folder of the store
get_folder_mut_first(st, folder_id) ==
    IF FindIdx(st.folders, folder_id) # 0 THEN FindIdx(st.folders, folder_id)
    ELSE IF st.folders # <<>> THEN 1 ELSE 0

\* InnerState::get_folder / get_folder_mut: index of the folder, 0 for UnknownFolder
get_folder_mut(st, folder_id) == FindIdx(st.folders, folder_id)

\* device.connected = status, when the device is in the store
SetConnected(st, device_id, status) ==
    LET i == get_device_mut(st, device_id) IN
    IF i = 0 THEN st ELSE [st EXCEPT !.devices[i].connected = status]

\* config.name of the devices, and the place of name.to_lowercase() in the
\* order of strings
DeviceName == (LocalId :> "Desktop") @@ ("devY" :> "Laptop") @@ ("devX" :> "phone")
LowerOrder == <<"desktop", "laptop", "phone">>
to_lowercase == ("Desktop" :> "desktop") @@ ("Laptop" :> "laptop") @@ ("phone" :> "phone")
LowerRank(name) == CHOOSE i \in DOMAIN LowerOrder : LowerOrder[i] = to_lowercase[name]

\* sort_by on the lower-cased name (a stable sort)
RECURSIVE InsertByName(_, _)
InsertByName(sorted, d) ==
    IF sorted = <<>> THEN <<d>>
    ELSE IF LowerRank(DeviceName[d.id]) < LowerRank(DeviceName[Head(sorted).id])
    THEN <<d>> \o sorted
    ELSE <<Head(sorted)>> \o InsertByName(Tail(sorted), d)

RECURSIVE SortByName(_)
SortByName(s) ==
    IF s = <<>> THEN <<>>
    ELSE InsertByName(SortByName(SubSeq(s, 1, Len(s) - 1)), s[Len(s)])

\* InnerState::get_devices
get_devices(st) == SortByName(st.devices)

IsOther(st, d) == d.id # st.id

\* get_other_devices without the filter
get_other_devices_all(st) == get_devices(st)

\* InnerState::get_other_devices
get_other_devices(st) == SelectSeq(get_devices(st), LAMBDA d : IsOther(st, d))

\* app::state::State::get_devices: the values of the device map
app_get_devices(st) == SortByName(SetToSeq({[id |-> d] : d \in st.devices}))

\* app::state::State::get_other_devices
app_get_other_devices(st) == SelectSeq(app_get_devices(st), LAMBDA d : IsOther(st, d))

\* State::set_error
set_error(st, e) == st

\* ---------------------------------------------------------------- the daemon
Event(ty, id) == [ty |-> ty, id |-> id]

Emit(d, evs) == [d EXCEPT !.events = @ \o evs]

\* GET /cluster/pending/folders: every offered folder with its offerers
PendingFoldersOf(d) ==
    [f \in {p[2] : p \in d.pendingFolders} |->
        {p[1] : p \in {q \in d.pendingFolders : q[2] = f}}]

\* GET /connections: the connected flag of every configured device
Connections(d) ==
    [x \in SeqToSet(d.devices) |-> x \in d.connected]

\* POST /config/devices
DaemonAddDevice(d, id) ==
    Emit([d EXCEPT !.devices = IF id \in SeqToSet(@) THEN @ ELSE Append(@, id),
                   !.pendingDevices = @ \ {id}],
         <<Event("ConfigSaved", None)>>
            \o (IF id \in d.pendingDevices
                THEN <<Event("PendingDevicesChanged", id)>> ELSE <<>>))

\* POST /config/folders: upsert keyed by folder ID
DaemonAddFolder(d, f) ==
    Emit([d EXCEPT !.folders =
             IF FindIdx(@, f.id) = 0 THEN Append(@, f)
             ELSE [@ EXCEPT ![FindIdx(d.folders, f.id)] = f]],
         <<Event("ConfigSaved", None)>>)

\* DELETE /config/folders/<id>
DaemonDeleteFolder(d, id) ==
    Emit([d EXCEPT !.folders = IF FindIdx(@, id) = 0 THEN @
                                 ELSE RemoveAt(@, FindIdx(d.folders, id))],
         <<Event("ConfigSaved", None)>>)

\* ------------------------------------------------------------------- Init
NoJob == Job(None, None, None)
NoResp == [ok |-> FALSE, val |-> None]

\* the record kept in last: the step, its job, whether it succeeded, the
\* identity it was about and the error it reported
Step(name, job, ok, id) ==
    [step |-> name, job |-> job, ok |-> ok, id |-> id, err |-> None]
StepErr(name, e, id) ==
    [step |-> name, job |-> NoJob, ok |-> FALSE, id |-> id, err |-> e]
\* steps no property looks back at
Quiet == Step("-", NoJob, TRUE, None)

RECURSIVE BagOfSeq(_)
BagOfSeq(s) == IF s = <<>> THEN EmptyBag ELSE SetToBag({Head(s)}) (+) BagOfSeq(Tail(s))

\* history variables: tickets handed out on entry to the reload queue, jobs
\* whose gateway call began / that finished, notifications of the worker and
\* of the event handler, failed jobs, the configuration merged last, the
\* folders of all merged configurations, the finished jobs, gateway calls of
\* mutation tasks, devices whose accept reload was merged, events sent on
\* the event channel, events taken from it by the handler
HistInit(conf) ==
    [tickets |-> 0, started |-> 0, finished |-> 0, notified |-> 0,
     failed |-> 0, lastFailed |-> 0, lastConf |-> conf, cfgOk |-> 0,
     cfgFolders |-> EmptyBag, done |-> EmptyBag,
     evNotified |-> 0, gatewayCalls |-> 0, acceptMerged |-> {},
     delivered |-> 0, handled |-> 0]

\* the daemon when the dashboard starts
DaemonFolder(id) == [id |-> id, devices |-> <<LocalId>>]

DaemonInit(folders, conn) ==
    [devices |-> <<LocalId, "devY">>,
     folders |-> folders,
     pendingDevices |-> {"devX"},
     pendingFolders |-> {<<"devY", "f1">>},
     connected |-> conn,
     events |-> <<>>]

\* ------------------------------------------------- PendingPageState
\* usize, with the width scaled down: values are taken modulo UsizeMod
UsizeMod == 256

\* Option<usize>: <<>> is None, <<i>> is Some(i)
unwrap_or(opt, default) == IF opt = <<>> THEN default ELSE opt[1]

\* PendingPageState::default
PendingPageStateDefault ==
    [devices_focused |-> TRUE, focused_device |-> <<>>, focused_folder |-> <<>>]

\* the messages of input.rs that PendingPageState::update tells apart, and
\* one that it does not
PageMessages == {"Left", "Right", "FocusNext", "FocusBack", "Up", "Down", "Select"}

\* devices_focused when the second match of update is reached
FocusAfter(ps, msg, total_devices, total_folders) ==
    IF total_folders = 0 THEN TRUE
    ELSE IF total_devices = 0 THEN FALSE
    ELSE IF msg \in {"Left", "Right", "FocusNext", "FocusBack"} THEN ~ps.devices_focused
    ELSE ps.devices_focused

\* Some(i) stepped down (Down) or up (Up) in a list of total entries
Moved(msg, i, total) ==
    IF msg = "Down" THEN ((i + 1) % UsizeMod) % total
    ELSE ((i + total - 1) % UsizeMod) % total

\* PendingPageState::update as a build without overflow checks runs it
update(ps, msg, total_devices, total_folders) ==
    LET df == FocusAfter(ps, msg, total_devices, total_folders)
        first == IF msg = "Down" THEN [d |-> 0, f |-> 0]
                 ELSE [d |-> (total_devices - 1) % UsizeMod,
                       f |-> (total_folders - 1) % UsizeMod]
    IN
    IF total_devices = 0 /\ total_folders = 0
    THEN [devices_focused |->
             IF msg \in {"Left", "Right", "FocusNext", "FocusBack"}
             THEN ~ps.devices_focused ELSE ps.devices_focused,
          focused_device |-> <<>>, focused_folder |-> <<>>]
    ELSE IF msg \notin {"Up", "Down"} THEN [ps EXCEPT !.devices_focused = df]
    ELSE IF df
    THEN IF ps.focused_device # <<>>
         THEN [ps EXCEPT !.devices_focused = df,
                         !.focused_device = <<Moved(msg, @[1], total_devices)>>]
         ELSE [devices_focused |-> df,
               focused_device |-> <<first.d>>,
               focused_folder |-> <<unwrap_or(ps.focused_folder, first.f)>>]
    ELSE IF ps.focused_folder # <<>>
         THEN [ps EXCEPT !.devices_focused = df,
                         !.focused_folder = <<Moved(msg, @[1], total_folders)>>]
         ELSE [devices_focused |-> df,
               focused_folder |-> <<first.f>>,
               focused_device |-> <<unwrap_or(ps.focused_device, first.d)>>]

\* an addition or subtraction of update leaves the range of usize, which
\* a build with overflow checks answers with a panic
Overflows(ps, msg, total_devices, total_folders) ==
    LET df == FocusAfter(ps, msg, total_devices, total_folders) IN
    /\ ~(total_devices = 0 /\ total_folders = 0)
    /\ msg \in {"Up", "Down"}
    /\ IF df
       THEN IF ps.focused_device # <<>>
            THEN ps.focused_device[1] + (IF msg = "Down" THEN 1 ELSE total_devices) >= UsizeMod
            ELSE msg = "Up" /\ total_folders = 0
       ELSE IF ps.focused_folder # <<>>
            THEN ps.focused_folder[1] + (IF msg = "Down" THEN 1 ELSE total_folders) >= UsizeMod
            ELSE msg = "Up" /\ total_devices = 0

\* a message of input.rs with what it carries
Msg(ty, id) == [ty |-> ty, id |-> id]
NoMsg == Msg("None", None)

\* App.popup = None; otherwise the popup with its focus and the device or
\* folder it is about
NoPopup == [kind |-> "None", focus |-> "Accept", id |-> None]

\* no event in hand
NoEvent == [ty |-> "None", id |-> None]

\* app::state::State::default, the error slot, the reload channel, the event
\* subscription and the event handler of App::new, which requests four
\* reloads; open: the presentation layer still holds the receiver of
\* rerender_tx; events: the events field of app::state::State
AppStateDefault ==
    [folders |-> <<>>, devices |-> {}, id |-> "",
     pending_devices |-> {}, pending_folders |-> [f \in {} |-> {}]]

AppInit ==
    [state |-> AppStateDefault,
     error |-> None,
     spawned |-> SetToBag({"ID", "Configuration", "PendingDevices", "PendingFolders"}),
     queue |-> <<>>,
     pc |-> "recv", job |-> None, resp |-> NoResp,
     posts |-> EmptyBag,
     rerender |-> 0,
     open |-> TRUE,
     since |-> 0, skip_old |-> TRUE, evq |-> <<>>,
     hpc |-> "recv", hev |-> NoEvent,
     notices |-> 0, events |-> <<>>,
     ui |-> "running",
     current_screen |-> "Folders",
     popup |-> NoPopup,
     selected_folder |-> <<>>,
     selected_device |-> <<>>,
     requests |-> EmptyBag,
     pending_state |-> PendingPageStateDefault,
     counts |-> [devices |-> 0, folders |-> 0]]

\* the daemons the dashboard is started against
OneFolderDaemon == DaemonInit(<<DaemonFolder("f1")>>, {})
ConnectedDaemon == DaemonInit(<<DaemonFolder("f1")>>, {"devY"})
TwoFolderDaemon == DaemonInit(<<DaemonFolder("f1"), DaemonFolder("f2")>>, {})

\* State::new: the three workers are spawned and four reloads are requested
ConstructedWith(daemons, b) ==
    /\ daemon \in daemons
    /\ inner = InnerDefault
    /\ reloadQ = <<>>
    /\ sending = SetToBag({ReloadID, ReloadConfiguration,
                           ReloadPendingDevices, ReloadPendingFolders})
    /\ worker = [pc |-> "recv", job |-> NoJob, ticket |-> 0, resp |-> NoResp]
    /\ relay = [alive |-> TRUE, current_id |-> 0, skip_old |-> TRUE]
    /\ eventCh = <<>>
    /\ handler = [pc |-> "recv", job |-> NoJob]
    /\ calls = EmptyBag
    /\ hist = HistInit([folders |-> <<>>, devices |-> <<>>])
    /\ budget = b
    /\ last = Step("Init", NoJob, TRUE, None)

ConstructedState(daemons) ==
    ConstructedWith(daemons, [ops |-> MaxOps, fails |-> MaxFail, env |-> MaxEnv])

\* State::new beside App::new
Constructed(daemons) == ConstructedState(daemons) /\ app = AppInit

\* ------------------------------------------------------------ State::reload
\* State::reload: spawn a task that will send the job on reload_tx
reload(bag, job) == bag (+) SetToBag({job})

\* the spawned task of State::reload gets its turn: reload_tx.send(reload).await
SendReload(job) ==
    /\ BagIn(job, sending)
    /\ Len(reloadQ) < ReloadCap
    /\ sending' = sending (-) SetToBag({job})
    /\ reloadQ' = Append(reloadQ, [job |-> job, ticket |-> hist.tickets + 1])
    /\ hist' = [hist EXCEPT !.tickets = @ + 1]
    /\ last' = Quiet
    /\ UNCHANGED <<app, daemon, inner, worker, relay, eventCh, handler, calls, budget>>

\* ------------------------------------------------- State::listen_to_reload
\* WorkerRecv taking the newest job of the queue instead of the oldest
WorkerRecvNewest ==
    /\ worker.pc = "recv"
    /\ reloadQ # <<>>
    /\ worker' = [pc |-> "call", job |-> reloadQ[Len(reloadQ)].job,
                  ticket |-> reloadQ[Len(reloadQ)].ticket, resp |-> NoResp]
    /\ reloadQ' = SubSeq(reloadQ, 1, Len(reloadQ) - 1)
    /\ hist' = [hist EXCEPT !.started = @ + 1]
    /\ last' = Quiet
    /\ UNCHANGED <<app, daemon, inner, sending, relay, eventCh, handler, calls, budget>>

\* WorkerRecv of a loop that takes the write guard and clears the store
\* before it issues the gateway call
WorkerRecvClearing ==
    /\ worker.pc = "recv"
    /\ reloadQ # <<>>
    /\ worker' = [pc |-> "call", job |-> Head(reloadQ).job,
                  ticket |-> Head(reloadQ).ticket, resp |-> NoResp]
    /\ reloadQ' = Tail(reloadQ)
    /\ inner' = [inner EXCEPT !.folders = <<>>, !.devices = <<>>]
    /\ hist' = [hist EXCEPT !.started = @ + 1]
    /\ last' = Quiet
    /\ UNCHANGED <<app, daemon, sending, relay, eventCh, handler, calls, budget>>

\* reload_rx.recv().await returns the oldest job; its gateway call is issued
WorkerRecv ==
    /\ worker.pc = "recv"
    /\ reloadQ # <<>>
    /\ worker' = [pc |-> "call", job |-> Head(reloadQ).job,
                  ticket |-> Head(reloadQ).ticket, resp |-> NoResp]
    /\ reloadQ' = Tail(reloadQ)
    /\ hist' = [hist EXCEPT !.started = @ + 1]
    /\ last' = Quiet
    /\ UNCHANGED <<app, daemon, inner, sending, relay, eventCh, handler, calls, budget>>

\* what the daemon answers to the fetch of a job
CompletionValues == {50, 100}

FetchValues(job) ==
    CASE job.kind = "ID" -> {LocalId}
      [] job.kind = "Configuration" ->
            {[folders |-> daemon.folders, devices |-> daemon.devices]}
      [] job.kind = "PendingDevices" -> {daemon.pendingDevices}
      [] job.kind = "PendingFolders" -> {PendingFoldersOf(daemon)}
      [] job.kind = "Connections" -> {Connections(daemon)}
      [] job.kind = "Completion" -> CompletionValues

\* the gateway call of the current job returns Ok(value)
FetchOk ==
    /\ worker.pc = "call"
    /\ \E v \in FetchValues(worker.job) :
          worker' = [worker EXCEPT !.pc = "merge", !.resp = [ok |-> TRUE, val |-> v]]
    /\ last' = Quiet
    /\ UNCHANGED <<app, daemon, inner, reloadQ, sending, relay, eventCh, handler,
                   calls, hist, budget>>

\* the gateway call of the current job returns Err
FetchErr ==
    /\ worker.pc = "call"
    /\ budget.fails > 0
    /\ worker' = [worker EXCEPT !.pc = "merge", !.resp = NoResp]
    /\ budget' = [budget EXCEPT !.fails = @ - 1]
    /\ last' = Quiet
    /\ UNCHANGED <<app, daemon, inner, reloadQ, sending, relay, eventCh, handler,
                   calls, hist>>

RECURSIVE ApplyConnections(_, _, _)
\* the loop over connections.connections in the Connections arm
ApplyConnections(st, conn, ids) ==
    IF ids = <<>> THEN st
    ELSE ApplyConnections(
            SetConnected(st, Head(ids),
                         IF conn[Head(ids)] THEN UpToDate ELSE Disconnected),
            conn, Tail(ids))

\* the Completion arm, gateway call succeeded
\* MergeCompletion that shows every answered device as syncing
MergeCompletionSyncing(st, job, completion) ==
    IF job.device_id # None
    THEN SetConnected(st, job.device_id, Syncing(completion))
    ELSE IF job.folder_id # None
    THEN LET i == get_folder_mut(st, job.folder_id) IN
         IF i = 0 THEN st ELSE [st EXCEPT !.folders[i].completion = completion]
    ELSE st

MergeCompletion(st, job, completion) ==
    IF job.device_id # None
    THEN SetConnected(st, job.device_id,
                      IF completion = 100 THEN UpToDate ELSE Syncing(completion))
    ELSE IF job.folder_id # None
    THEN LET i == get_folder_mut(st, job.folder_id) IN
         IF i = 0 THEN st ELSE [st EXCEPT !.folders[i].completion = completion]
    ELSE st

\* the store after the match arm of the job
\* MergeInner that empties the pending lists when their reload fails
MergeInnerClearing(st, job, resp) ==
    IF resp.ok
    THEN CASE job.kind = "ID" -> [st EXCEPT !.id = resp.val]
           [] job.kind = "Configuration" -> update_from_configuration(st, resp.val)
           [] job.kind = "PendingDevices" -> set_pending_devices(st, resp.val)
           [] job.kind = "PendingFolders" -> set_pending_folders(st, resp.val)
           [] job.kind = "Connections" ->
                 ApplyConnections(st, resp.val, SetToSeq(DOMAIN resp.val))
           [] job.kind = "Completion" -> MergeCompletion(st, job, resp.val)
    ELSE IF job.kind \in {"Configuration", "ID"}
    THEN set_error(st, "APIError")
    ELSE [st EXCEPT !.pending_devices = <<>>, !.pending_folders = <<>>]

MergeInner(st, job, resp) ==
    IF resp.ok
    THEN CASE job.kind = "ID" -> [st EXCEPT !.id = resp.val]
           [] job.kind = "Configuration" -> update_from_configuration(st, resp.val)
           [] job.kind = "PendingDevices" -> set_pending_devices(st, resp.val)
           [] job.kind = "PendingFolders" -> set_pending_folders(st, resp.val)
           [] job.kind = "Connections" ->
                 ApplyConnections(st, resp.val, SetToSeq(DOMAIN resp.val))
           [] job.kind = "Completion" -> MergeCompletion(st, job, resp.val)
    ELSE IF job.kind \in {"Configuration", "ID"}
    THEN set_error(st, "APIError")
    ELSE st

\* FollowUps that requests a Completion for the first folder only
FollowUpsFirstFolder(st, job, resp) ==
    IF ~resp.ok THEN EmptyBag
    ELSE IF job.kind = "Configuration"
    THEN reload(BagOfSeq([i \in DOMAIN resp.val.folders \cap {1} |->
                             ReloadCompletion(resp.val.folders[i].id, None)]),
                ReloadConnections)
    ELSE IF job.kind = "Connections"
    THEN SetToBag({ReloadCompletion(None, d) :
                     d \in {x \in DOMAIN resp.val :
                              resp.val[x] /\ get_device_mut(st, x) # 0}})
    ELSE EmptyBag

\* the reloads the match arm requests (state.reload)
FollowUps(st, job, resp) ==
    IF ~resp.ok THEN EmptyBag
    ELSE IF job.kind = "Configuration"
    THEN reload(BagOfSeq([i \in DOMAIN resp.val.folders |->
                             ReloadCompletion(resp.val.folders[i].id, None)]),
                ReloadConnections)
    ELSE IF job.kind = "Connections"
    THEN SetToBag({ReloadCompletion(None, d) :
                     d \in {x \in DOMAIN resp.val :
                              resp.val[x] /\ get_device_mut(st, x) # 0}})
    ELSE EmptyBag

\* todo!("update folder completion for device")
ReachesTodo(job, resp) ==
    /\ job.kind = "Completion"
    /\ resp.ok
    /\ job.device_id # None
    /\ job.folder_id # None

\* Notify with the send left out
NotifyDropped(h) == h

\* config_tx.send(()) at the end of the loop body
Notify(h) == [h EXCEPT !.notified = @ + 1]

\* NextPc of a loop that gives up on a failed gateway call
NextPcAbort(job, resp) == IF ReachesTodo(job, resp) \/ ~resp.ok THEN "panicked" ELSE "recv"

\* where the loop goes after the match arm: back to recv, unless the arm panicked
NextPc(job, resp) == IF ReachesTodo(job, resp) THEN "panicked" ELSE "recv"

\* the history after a finished job
Finished(h, job, resp) ==
    [h EXCEPT
       !.finished = @ + 1,
       !.done = @ (+) SetToBag({job}),
       !.failed = IF resp.ok THEN @ ELSE @ + 1,
       !.lastFailed = IF resp.ok THEN @ ELSE h.started,
       !.lastConf = IF resp.ok /\ job.kind = "Configuration" THEN resp.val ELSE @,
       !.cfgOk = IF resp.ok /\ job.kind = "Configuration" THEN @ + 1 ELSE @,
       !.cfgFolders = IF resp.ok /\ job.kind = "Configuration"
                      THEN @ (+) BagOfSeq(Ids(resp.val.folders)) ELSE @,
       !.acceptMerged = IF resp.ok /\ job.kind = "Configuration" /\ job.origin # None
                        THEN @ \cup {job.origin} ELSE @]

RECURSIVE Ticketed(_, _)
Ticketed(jobs, n) ==
    IF jobs = <<>> THEN <<>>
    ELSE <<[job |-> Head(jobs), ticket |-> n + 1]>> \o Ticketed(Tail(jobs), n + 1)

RECURSIVE SeqOfBag(_)
SeqOfBag(b) ==
    IF b = EmptyBag THEN <<>>
    ELSE LET x == CHOOSE y \in BagToSet(b) : TRUE
         IN <<x>> \o SeqOfBag(b (-) SetToBag({x}))

\* WorkerMerge of a loop that sends its follow-up reloads on reload_tx
\* itself and waits for room in the channel
WorkerMergeSending ==
    /\ worker.pc = "merge"
    /\ ~ReachesTodo(worker.job, worker.resp)
    /\ LET ups == SeqOfBag(FollowUps(inner, worker.job, worker.resp)) IN
          /\ Len(reloadQ) + Len(ups) <= ReloadCap
          /\ reloadQ' = reloadQ \o Ticketed(ups, hist.tickets)
          /\ hist' = [Notify(Finished(hist, worker.job, worker.resp))
                        EXCEPT !.tickets = @ + Len(ups)]
    /\ worker' = [worker EXCEPT !.pc = "recv"]
    /\ inner' = MergeInner(inner, worker.job, worker.resp)
    /\ last' = Step("WorkerMerge", worker.job, worker.resp.ok, None)
    /\ UNCHANGED <<app, daemon, sending, relay, eventCh, handler, calls, budget>>

\* the worker resumes with the response: match arm, then the notification
WorkerMerge ==
    /\ worker.pc = "merge"
    /\ worker' = [worker EXCEPT !.pc = NextPc(worker.job, worker.resp)]
    /\ IF ReachesTodo(worker.job, worker.resp)
       THEN UNCHANGED <<inner, sending, hist>>
       ELSE /\ inner' = MergeInner(inner, worker.job, worker.resp)
            /\ sending' = sending (+) FollowUps(inner, worker.job, worker.resp)
            /\ hist' = Notify(Finished(hist, worker.job, worker.resp))
    /\ last' = Step("WorkerMerge", worker.job, worker.resp.ok, None)
    /\ UNCHANGED <<app, daemon, reloadQ, relay, eventCh, handler, calls, budget>>

\* ------------------------------------------------------- the subscription
\* what the receiver of the event channel finds first once values it has not
\* seen were overwritten: RecvError::Lagged
Lagged == [ty |-> "Lagged", id |-> None]

\* broadcast::Sender::send of each of evs: the channel retains the newest
\* EventCap values; a receiver that has not seen an overwritten value gets
\* Lagged from its next recv and continues with the oldest retained value
BroadcastSend(ch, evs) ==
    LET waiting == IF ch # <<>> /\ Head(ch) = Lagged THEN Tail(ch) ELSE ch
        all == waiting \o evs
        kept == IF Len(all) > EventCap
                THEN SubSeq(all, Len(all) - EventCap + 1, Len(all)) ELSE all
    IN IF Len(all) > EventCap \/ waiting # ch THEN <<Lagged>> \o kept ELSE kept

\* one round of the loop of get_events(event_tx, skip_old = true): GET
\* /events?since=current_id, forward what it returned unless skip_old
RelayPoll ==
    /\ relay.alive
    /\ relay.skip_old \/ Len(daemon.events) > relay.current_id
    /\ eventCh' = IF relay.skip_old THEN eventCh
                  ELSE BroadcastSend(eventCh, SubSeq(daemon.events, relay.current_id + 1,
                                                     Len(daemon.events)))
    /\ hist' = IF relay.skip_old THEN hist
               ELSE [hist EXCEPT !.delivered = @ + Len(daemon.events) - relay.current_id]
    /\ relay' = [relay EXCEPT !.current_id = Len(daemon.events), !.skip_old = FALSE]
    /\ last' = Quiet
    /\ UNCHANGED <<app, daemon, inner, reloadQ, sending, worker, handler, calls,
                   budget>>

\* one round of the loop on a response that repeats events the loop has
\* consumed already, from the one with id k on: the loop forwards every
\* event of the response and sets current_id to the id of each in turn
RelayPollReplayed(k) ==
    /\ relay.alive
    /\ ~relay.skip_old
    /\ budget.env > 0
    /\ k \in 1..relay.current_id
    /\ eventCh' = BroadcastSend(eventCh, SubSeq(daemon.events, k, Len(daemon.events)))
    /\ hist' = [hist EXCEPT !.delivered = @ + Len(daemon.events) - k + 1]
    /\ relay' = [relay EXCEPT !.current_id = Len(daemon.events)]
    /\ budget' = [budget EXCEPT !.env = @ - 1]
    /\ last' = Step("RelayPollReplayed", NoJob, TRUE, None)
    /\ UNCHANGED <<app, daemon, inner, reloadQ, sending, worker, handler, calls>>

\* the poll fails: get_events returns the error and the task of State::new ends
RelayFail ==
    /\ relay.alive
    /\ budget.fails > 0
    /\ relay' = [relay EXCEPT !.alive = FALSE]
    /\ inner' = set_error(inner, "APIError")
    /\ budget' = [budget EXCEPT !.fails = @ - 1]
    /\ last' = StepErr("RelayFail", "APIError", None)
    /\ UNCHANGED <<app, daemon, reloadQ, sending, worker, eventCh, handler, calls, hist>>

\* ----------------------------------------------------- State::handle_event
\* EventReload that takes a change of the pending devices for one of the
\* pending folders
EventReloadFoldersOnly(ev) ==
    CASE ev.ty = "ConfigSaved" -> ReloadConfiguration
      [] ev.ty = "PendingDevicesChanged" -> ReloadPendingFolders
      [] ev.ty = "PendingFoldersChanged" -> ReloadPendingFolders
      [] ev.ty = "RemoteDownloadProgress" -> ReloadCompletion(None, ev.id)
      [] OTHER -> NoJob

\* EventReload that asks for the completion of folder f1 on the reporting device
EventReloadFolderDevice(ev) ==
    CASE ev.ty = "ConfigSaved" -> ReloadConfiguration
      [] ev.ty = "PendingDevicesChanged" -> ReloadPendingDevices
      [] ev.ty = "PendingFoldersChanged" -> ReloadPendingFolders
      [] ev.ty = "RemoteDownloadProgress" -> ReloadCompletion("f1", ev.id)
      [] OTHER -> NoJob

\* EventReload that leaves a saved configuration to the next start
EventReloadNoSave(ev) ==
    CASE ev.ty = "PendingDevicesChanged" -> ReloadPendingDevices
      [] ev.ty = "PendingFoldersChanged" -> ReloadPendingFolders
      [] ev.ty = "RemoteDownloadProgress" -> ReloadCompletion(None, ev.id)
      [] OTHER -> NoJob

\* the reload an event asks for, NoJob if none
EventReload(ev) ==
    CASE ev.ty = "ConfigSaved" -> ReloadConfiguration
      [] ev.ty = "PendingDevicesChanged" -> ReloadPendingDevices
      [] ev.ty = "PendingFoldersChanged" -> ReloadPendingFolders
      [] ev.ty = "RemoteDownloadProgress" -> ReloadCompletion(None, ev.id)
      [] OTHER -> NoJob

\* EventInner that waits for the Connections reload on a connect
EventInnerNoConnect(st, ev) ==
    CASE ev.ty = "DeviceDisconnected" -> SetConnected(st, ev.id, Disconnected)
      [] OTHER -> st

\* the store after the direct status update of an event
EventInner(st, ev) ==
    CASE ev.ty = "DeviceConnected" -> SetConnected(st, ev.id, UpToDate)
      [] ev.ty = "DeviceDisconnected" -> SetConnected(st, ev.id, Disconnected)
      [] OTHER -> st

EventNotifies(ev) == ev.ty \in {"DeviceConnected", "DeviceDisconnected"}

\* event_rx.recv().await returns the oldest event; its match arm runs up to
\* the send on reload_tx
HandleEvent ==
    /\ handler.pc = "recv"
    /\ eventCh # <<>>
    /\ Head(eventCh) # Lagged
    /\ LET ev == Head(eventCh) IN
          /\ eventCh' = Tail(eventCh)
          /\ inner' = EventInner(inner, ev)
          /\ handler' = IF EventReload(ev) = NoJob THEN handler
                        ELSE [pc |-> "send", job |-> EventReload(ev)]
          /\ hist' = [hist EXCEPT !.handled = @ + 1,
                                  !.evNotified = IF EventNotifies(ev) THEN @ + 1 ELSE @]
          /\ last' = Step(ev.ty, EventReload(ev), get_device_mut(inner, ev.id) # 0, ev.id)
    /\ UNCHANGED <<app, daemon, reloadQ, sending, worker, relay, calls, budget>>

\* event_rx.recv().await returns Err(Lagged): the while-let loop of
\* handle_event ends and the task with it
HandlerLagged ==
    /\ handler.pc = "recv"
    /\ eventCh # <<>>
    /\ Head(eventCh) = Lagged
    /\ handler' = [pc |-> "stopped", job |-> NoJob]
    /\ eventCh' = Tail(eventCh)
    /\ last' = StepErr("HandlerLagged", "Lagged", None)
    /\ UNCHANGED <<app, daemon, inner, reloadQ, sending, worker, relay, calls,
                   hist, budget>>

\* state.reload_tx.send(..).await of the event handler completes
HandlerSend ==
    /\ handler.pc = "send"
    /\ Len(reloadQ) < ReloadCap
    /\ reloadQ' = Append(reloadQ, [job |-> handler.job, ticket |-> hist.tickets + 1])
    /\ hist' = [hist EXCEPT !.tickets = @ + 1]
    /\ handler' = [pc |-> "recv", job |-> NoJob]
    /\ last' = Quiet
    /\ UNCHANGED <<app, daemon, inner, sending, worker, relay, eventCh, calls, budget>>

\* ------------------------------------------------------ daemon-side changes
\* a configured remote device connects to the daemon
DaemonConnect(d) ==
    /\ budget.env > 0
    /\ d \in SeqToSet(daemon.devices) \ {LocalId}
    /\ d \notin daemon.connected
    /\ daemon' = Emit([daemon EXCEPT !.connected = @ \cup {d}],
                      <<Event("DeviceConnected", d)>>)
    /\ budget' = [budget EXCEPT !.env = @ - 1]
    /\ last' = Step("DaemonConnect", NoJob, TRUE, d)
    /\ UNCHANGED <<app, inner, reloadQ, sending, worker, relay, eventCh, handler,
                   calls, hist>>

\* a connected device goes away
DaemonDisconnect(d) ==
    /\ budget.env > 0
    /\ d \in daemon.connected
    /\ daemon' = Emit([daemon EXCEPT !.connected = @ \ {d}],
                      <<Event("DeviceDisconnected", d)>>)
    /\ budget' = [budget EXCEPT !.env = @ - 1]
    /\ last' = Step("DaemonDisconnect", NoJob, TRUE, d)
    /\ UNCHANGED <<app, inner, reloadQ, sending, worker, relay, eventCh, handler,
                   calls, hist>>

\* a connected device reports progress of its download
DaemonProgress(d) ==
    /\ budget.env > 0
    /\ d \in daemon.connected
    /\ daemon' = Emit(daemon, <<Event("RemoteDownloadProgress", d)>>)
    /\ budget' = [budget EXCEPT !.env = @ - 1]
    /\ last' = Step("DaemonProgress", NoJob, TRUE, d)
    /\ UNCHANGED <<app, inner, reloadQ, sending, worker, relay, eventCh, handler,
                   calls, hist>>

\* a device that is neither configured nor pending asks to connect
DaemonAnnounce(d) ==
    /\ budget.env > 0
    /\ d \notin SeqToSet(daemon.devices) \cup daemon.pendingDevices
    /\ daemon' = Emit([daemon EXCEPT !.pendingDevices = @ \cup {d}],
                      <<Event("PendingDevicesChanged", d)>>)
    /\ budget' = [budget EXCEPT !.env = @ - 1]
    /\ last' = Step("DaemonAnnounce", NoJob, TRUE, d)
    /\ UNCHANGED <<app, inner, reloadQ, sending, worker, relay, eventCh, handler,
                   calls, hist>>

\* a pending device leaves the daemon's pending list (removed elsewhere)
DaemonWithdraw(d) ==
    /\ budget.env > 0
    /\ d \in daemon.pendingDevices
    /\ daemon' = Emit([daemon EXCEPT !.pendingDevices = @ \ {d}],
                      <<Event("PendingDevicesChanged", None)>>)
    /\ budget' = [budget EXCEPT !.env = @ - 1]
    /\ last' = Step("DaemonWithdraw", NoJob, TRUE, d)
    /\ UNCHANGED <<app, inner, reloadQ, sending, worker, relay, eventCh, handler,
                   calls, hist>>

\* a remote device offers a folder
DaemonOffer(d, f) ==
    /\ budget.env > 0
    /\ <<d, f>> \notin daemon.pendingFolders
    /\ daemon' = Emit([daemon EXCEPT !.pendingFolders = @ \cup {<<d, f>>}],
                      <<Event("PendingFoldersChanged", f)>>)
    /\ budget' = [budget EXCEPT !.env = @ - 1]
    /\ last' = Step("DaemonOffer", NoJob, TRUE, d)
    /\ UNCHANGED <<app, inner, reloadQ, sending, worker, relay, eventCh, handler,
                   calls, hist>>

\* the configuration is saved from elsewhere (the web GUI) as it is
DaemonSave ==
    /\ budget.env > 0
    /\ daemon' = Emit(daemon, <<Event("ConfigSaved", None)>>)
    /\ budget' = [budget EXCEPT !.env = @ - 1]
    /\ last' = Step("DaemonSave", NoJob, TRUE, None)
    /\ UNCHANGED <<app, inner, reloadQ, sending, worker, relay, eventCh, handler,
                   calls, hist>>

\* event kinds that neither handle_event has a match arm for
OtherKinds == {"StateChanged", "FolderSummary"}

\* the daemon emits an event of such a kind
DaemonOther(ty) ==
    /\ budget.env > 0
    /\ ty \in OtherKinds
    /\ daemon' = Emit(daemon, <<Event(ty, None)>>)
    /\ budget' = [budget EXCEPT !.env = @ - 1]
    /\ last' = Step("DaemonOther", NoJob, TRUE, None)
    /\ UNCHANGED <<app, inner, reloadQ, sending, worker, relay, eventCh, handler,
                   calls, hist>>

\* ------------------------------------------------------------- mutations
\* a spawned mutation task: the request, the identity it is about and what
\* it carries besides (a folder configuration, a device), None if nothing
Call(op, id) == [op |-> op, id |-> id, arg |-> None]

\* State::accept_device
accept_device(device_id) ==
    /\ budget.ops > 0
    /\ budget' = [budget EXCEPT !.ops = @ - 1]
    /\ IF get_pending_device(inner, device_id)
       THEN /\ calls' = calls (+) SetToBag({Call("add_device", device_id)})
            /\ hist' = [hist EXCEPT !.gatewayCalls = @ + 1]
            /\ last' = Step("accept_device", NoJob, TRUE, device_id)
            /\ UNCHANGED inner
       ELSE /\ inner' = set_error(inner, "UnknownDevice")
            /\ last' = StepErr("accept_device", "UnknownDevice", device_id)
            /\ UNCHANGED <<calls, hist>>
    /\ UNCHANGED <<app, daemon, reloadQ, sending, worker, relay, eventCh, handler>>

\* State::add_foler
add_foler(folder_id) ==
    /\ budget.ops > 0
    /\ budget' = [budget EXCEPT !.ops = @ - 1]
    /\ calls' = calls (+) SetToBag({Call("add_folder", folder_id)})
    /\ hist' = [hist EXCEPT !.gatewayCalls = @ + 1]
    /\ last' = Step("add_foler", NoJob, TRUE, folder_id)
    /\ UNCHANGED <<app, daemon, inner, reloadQ, sending, worker, relay, eventCh, handler>>

\* State::remove_folder
remove_folder(folder_id) ==
    /\ budget.ops > 0
    /\ budget' = [budget EXCEPT !.ops = @ - 1]
    /\ calls' = calls (+) SetToBag({Call("delete_folder", folder_id)})
    /\ hist' = [hist EXCEPT !.gatewayCalls = @ + 1]
    /\ last' = Step("remove_folder", NoJob, TRUE, folder_id)
    /\ UNCHANGED <<app, daemon, inner, reloadQ, sending, worker, relay, eventCh, handler>>

\* State::share_folder
share_folder(folder_id, device_id) ==
    /\ budget.ops > 0
    /\ budget' = [budget EXCEPT !.ops = @ - 1]
    /\ LET i == get_folder_mut(inner, folder_id) IN
       IF i # 0
       THEN /\ inner' = [inner EXCEPT !.folders[i].devices = Append(@, device_id)]
            /\ calls' = calls (+) SetToBag({[Call("post_folder", folder_id) EXCEPT
                            !.arg = [id |-> inner.folders[i].id,
                                     devices |-> Append(inner.folders[i].devices,
                                                        device_id)]]})
            /\ hist' = [hist EXCEPT !.gatewayCalls = @ + 1]
            /\ last' = Step("share_folder", Job(None, folder_id, device_id), TRUE,
                            folder_id)
       ELSE /\ inner' = set_error(inner, "UnknownFolder")
            /\ last' = StepErr("share_folder", "UnknownFolder", folder_id)
            /\ UNCHANGED <<calls, hist>>
    /\ UNCHANGED <<app, daemon, reloadQ, sending, worker, relay, eventCh, handler>>

\* State::dismiss_device
dismiss_device(device_id) ==
    /\ budget.ops > 0
    /\ budget' = [budget EXCEPT !.ops = @ - 1]
    /\ calls' = calls (+) SetToBag({Call("dismiss_pending_device", device_id)})
    /\ hist' = [hist EXCEPT !.gatewayCalls = @ + 1]
    /\ last' = Step("dismiss_device", NoJob, TRUE, device_id)
    /\ UNCHANGED <<app, daemon, inner, reloadQ, sending, worker, relay, eventCh, handler>>

\* State::dismiss_folder
dismiss_folder(folder_id, device_id) ==
    /\ budget.ops > 0
    /\ budget' = [budget EXCEPT !.ops = @ - 1]
    /\ calls' = calls (+) SetToBag({[Call("dismiss_pending_folder", folder_id) EXCEPT
                                        !.arg = device_id]})
    /\ hist' = [hist EXCEPT !.gatewayCalls = @ + 1]
    /\ last' = Step("dismiss_folder", Job(None, folder_id, device_id), TRUE, folder_id)
    /\ UNCHANGED <<app, daemon, inner, reloadQ, sending, worker, relay, eventCh, handler>>

\* DELETE /cluster/pending/devices
DaemonDismissDevice(d, id) ==
    IF id \in d.pendingDevices
    THEN Emit([d EXCEPT !.pendingDevices = @ \ {id}],
              <<Event("PendingDevicesChanged", None)>>)
    ELSE d

\* DELETE /cluster/pending/folders
DaemonDismissFolder(d, folder_id, device_id) ==
    IF <<device_id, folder_id>> \in d.pendingFolders
    THEN Emit([d EXCEPT !.pendingFolders = @ \ {<<device_id, folder_id>>}],
              <<Event("PendingFoldersChanged", None)>>)
    ELSE d

\* the daemon after it served the request of a mutation task
DaemonServe(d, call) ==
    CASE call.op = "add_device" -> DaemonAddDevice(d, call.id)
      [] call.op = "add_folder" -> DaemonAddFolder(d, [id |-> call.id, devices |-> <<>>])
      [] call.op = "delete_folder" -> DaemonDeleteFolder(d, call.id)
      [] call.op = "post_folder" -> DaemonAddFolder(d, call.arg)
      [] call.op = "dismiss_pending_device" -> DaemonDismissDevice(d, call.id)
      [] call.op = "dismiss_pending_folder" -> DaemonDismissFolder(d, call.id, call.arg)

\* a request the daemon refuses whatever the transport does (404)
Refused(d, call) == call.op = "delete_folder" /\ FindIdx(d.folders, call.id) = 0

\* MutationReloads of tasks that all refresh what they changed themselves
MutationReloadsAll(call) ==
    CASE call.op \in {"add_device", "add_folder", "post_folder"} ->
             SetToBag({[ReloadConfiguration EXCEPT !.origin = call.id]})
      [] call.op = "dismiss_pending_device" -> SetToBag({ReloadPendingDevices})
      [] call.op = "dismiss_pending_folder" -> SetToBag({ReloadPendingFolders})
      [] OTHER -> EmptyBag

\* MutationReloads of tasks that leave the refresh to the events
MutationReloadsNone(call) == EmptyBag

\* the reloads a mutation task requests once its call returned Ok
MutationReloads(call) ==
    IF call.op \in {"add_device", "add_folder"}
    THEN SetToBag({[ReloadConfiguration EXCEPT !.origin = call.id]})
    ELSE EmptyBag

\* the gateway call of a mutation task returns Ok and the task runs to its end
MutationOk(call) ==
    /\ BagIn(call, calls)
    /\ ~Refused(daemon, call)
    /\ calls' = calls (-) SetToBag({call})
    /\ daemon' = DaemonServe(daemon, call)
    /\ sending' = sending (+) MutationReloads(call)
    /\ last' = Step(call.op, NoJob, TRUE, call.id)
    /\ UNCHANGED <<app, inner, reloadQ, worker, relay, eventCh, handler, hist, budget>>

\* the gateway call of a mutation task returns Err: logged, set_error
MutationErr(call) ==
    /\ BagIn(call, calls)
    /\ Refused(daemon, call) \/ budget.fails > 0
    /\ calls' = calls (-) SetToBag({call})
    /\ inner' = set_error(inner, "APIError")
    /\ budget' = IF Refused(daemon, call) THEN budget
                 ELSE [budget EXCEPT !.fails = @ - 1]
    /\ last' = StepErr(call.op, "APIError", call.id)
    /\ UNCHANGED <<app, daemon, reloadQ, sending, worker, relay, eventCh, handler, hist>>


\* ------------------------------------------------------------ tui/app.rs
\* app::state::State::update_from_configuration
app_update_from_configuration(st, conf) ==
    [st EXCEPT !.devices = SeqToSet(conf.devices),
               !.folders = Ids(conf.folders)]

\* the spawned task of App::reload gets its turn: reload_tx.send(reload).await
AppSendReload(kind) ==
    /\ BagIn(kind, app.spawned)
    /\ Len(app.queue) < ReloadCap
    /\ app' = [app EXCEPT !.spawned = @ (-) SetToBag({kind}),
                          !.queue = Append(@, kind)]
    /\ last' = Quiet
    /\ UNCHANGED <<daemon, inner, reloadQ, sending, worker, relay, eventCh,
                   handler, calls, hist, budget>>

\* App::handle_reload: reload_rx.recv().await returns, the gateway call is issued
AppRecv ==
    /\ app.pc = "recv"
    /\ app.queue # <<>>
    /\ app' = [app EXCEPT !.pc = "call", !.job = Head(app.queue),
                          !.queue = Tail(@), !.resp = NoResp]
    /\ last' = Quiet
    /\ UNCHANGED <<daemon, inner, reloadQ, sending, worker, relay, eventCh,
                   handler, calls, hist, budget>>

\* the gateway call of App::handle_reload returns Ok(value)
AppFetchOk ==
    /\ app.pc = "call"
    /\ \E v \in FetchValues(Job(app.job, None, None)) :
          app' = [app EXCEPT !.pc = "merge", !.resp = [ok |-> TRUE, val |-> v]]
    /\ last' = Quiet
    /\ UNCHANGED <<daemon, inner, reloadQ, sending, worker, relay, eventCh,
                   handler, calls, hist, budget>>

\* the gateway call of App::handle_reload returns Err
AppFetchErr ==
    /\ app.pc = "call"
    /\ budget.fails > 0
    /\ app' = [app EXCEPT !.pc = "merge", !.resp = NoResp]
    /\ budget' = [budget EXCEPT !.fails = @ - 1]
    /\ last' = Quiet
    /\ UNCHANGED <<daemon, inner, reloadQ, sending, worker, relay, eventCh,
                   handler, calls, hist>>

\* the store of App after the match arm of handle_reload
AppMergeState(st, kind, resp) ==
    IF ~resp.ok THEN st
    ELSE CASE kind = "Configuration" -> app_update_from_configuration(st, resp.val)
           [] kind = "ID" -> [st EXCEPT !.id = resp.val]
           [] kind = "PendingDevices" -> [st EXCEPT !.pending_devices = resp.val]
           [] kind = "PendingFolders" -> [st EXCEPT !.pending_folders = resp.val]

\* the error slot of App after the match arm of handle_reload
AppMergeError(err, kind, resp) ==
    IF ~resp.ok /\ kind \in {"Configuration", "ID"} THEN "APIError" ELSE err

\* App::handle_reload resumes: match arm, then rerender_tx.send(Message::None)
\* .await.unwrap(), which panics once the receiver is gone: the task ends
\* and reload_rx is dropped with it
AppMerge ==
    /\ app.pc = "merge"
    /\ app' = [app EXCEPT !.state = AppMergeState(@, app.job, app.resp),
                          !.error = AppMergeError(@, app.job, app.resp),
                          !.rerender = IF app.open THEN @ + 1 ELSE @,
                          !.pc = IF app.open THEN "recv" ELSE "panicked"]
    /\ last' = Step("AppMerge", Job(app.job, None, None), app.resp.ok, None)
    /\ UNCHANGED <<daemon, inner, reloadQ, sending, worker, relay, eventCh,
                   handler, calls, hist, budget>>

\* --------------------------------------------------- App::handle_event
\* capacity of the event channel of App::new
AppEventCap == 10

\* the events of the daemon after `since`
EventsSince(n) == SubSeq(daemon.events, n + 1, Len(daemon.events))

\* one round of get_events(event_tx, true) for App: the events after `since`
\* are sent on event_tx unless skip_old, which the first round clears
AppRelayPoll ==
    /\ app.skip_old \/ app.since < Len(daemon.events)
    /\ Len(app.evq) + Len(EventsSince(app.since)) <= AppEventCap
    /\ app' = [app EXCEPT !.since = Len(daemon.events),
                          !.skip_old = FALSE,
                          !.evq = IF app.skip_old THEN @ ELSE @ \o EventsSince(app.since)]
    /\ last' = Quiet
    /\ UNCHANGED <<daemon, inner, reloadQ, sending, worker, relay, eventCh,
                   handler, calls, hist, budget>>

\* the reload kind an event asks App for, None if none
AppEventReload(ev) ==
    CASE ev.ty = "ConfigSaved" -> "Configuration"
      [] ev.ty = "PendingDevicesChanged" -> "PendingDevices"
      [] ev.ty = "PendingFoldersChanged" -> "PendingFolders"
      [] OTHER -> None

\* the event has a first added entry to show in a popup
AppEventAdds(ev) ==
    ev.ty \in {"PendingDevicesChanged", "PendingFoldersChanged"} /\ ev.id # None

\* event_rx.recv().await returns the oldest event; the match runs up to its
\* first send (an event without any is pushed to state.events at once)
AppHandleEvent ==
    /\ app.hpc = "recv"
    /\ app.evq # <<>>
    /\ LET ev == Head(app.evq) IN
          /\ app' = [app EXCEPT
                       !.evq = Tail(@),
                       !.hev = IF AppEventReload(ev) = None THEN NoEvent ELSE ev,
                       !.hpc = IF AppEventReload(ev) = None THEN "recv"
                               ELSE IF AppEventAdds(ev) THEN "notify" ELSE "send",
                       !.events = IF AppEventReload(ev) = None THEN Append(@, ev) ELSE @]
          /\ last' = Step("AppHandleEvent", Job(AppEventReload(ev), None, None), TRUE, ev.id)
    /\ UNCHANGED <<daemon, inner, reloadQ, sending, worker, relay, eventCh,
                   handler, calls, hist, budget>>

\* rerender_tx.send(Message::NewPendingDevice / NewPendingFolder).await
\* returns: Err once the receiver is gone, which is logged and nothing else
AppNotify ==
    /\ app.hpc = "notify"
    /\ app' = [app EXCEPT !.notices = IF app.open THEN @ + 1 ELSE @,
                          !.hpc = "send"]
    /\ last' = Step("AppNotify", Job(AppEventReload(app.hev), None, None), app.open, app.hev.id)
    /\ UNCHANGED <<daemon, inner, reloadQ, sending, worker, relay, eventCh,
                   handler, calls, hist, budget>>

\* reload_tx.send(..).await of App::handle_event returns: Err once
\* handle_reload has ended, which sets the error slot; then the event is
\* pushed to state.events
AppHandlerSend ==
    /\ app.hpc = "send"
    /\ app.pc = "panicked" \/ Len(app.queue) < ReloadCap
    /\ app' = [app EXCEPT
                 !.queue = IF app.pc = "panicked" THEN @
                           ELSE Append(@, AppEventReload(app.hev)),
                 !.error = IF app.pc = "panicked" THEN "SendError" ELSE @,
                 !.events = Append(@, app.hev),
                 !.hpc = "recv",
                 !.hev = NoEvent]
    /\ last' = Step("AppHandlerSend", Job(AppEventReload(app.hev), None, None),
                    app.pc # "panicked", app.hev.id)
    /\ UNCHANGED <<daemon, inner, reloadQ, sending, worker, relay, eventCh,
                   handler, calls, hist, budget>>

\* run returns and the receiver of rerender_tx is dropped with it
AppQuit ==
    /\ app.open
    /\ app' = [app EXCEPT !.open = FALSE]
    /\ last' = Step("AppQuit", NoJob, TRUE, None)
    /\ UNCHANGED <<daemon, inner, reloadQ, sending, worker, relay, eventCh,
                   handler, calls, hist, budget>>

\* ------------------------------------------------- App::update_pending
\* App::update_pending up to the Select test: the pending lists hold
\* devices_len and folders_len entries; checks: the build has overflow checks
AppUpdatePending(msg, devices_len, folders_len, checks) ==
    /\ app.ui = "running"
    /\ app' = [app EXCEPT
                 !.counts = [devices |-> devices_len, folders |-> folders_len],
                 !.pending_state =
                     IF checks /\ Overflows(@, msg, devices_len, folders_len) THEN @
                     ELSE update(@, msg, devices_len, folders_len),
                 !.ui = IF checks /\ Overflows(app.pending_state, msg, devices_len, folders_len)
                        THEN "panicked" ELSE @]
    /\ last' = Step("update_pending", NoJob, TRUE, msg)
    /\ UNCHANGED <<daemon, inner, reloadQ, sending, worker, relay, eventCh,
                   handler, calls, hist, budget>>

\* ---------------------------------------------------------- App::update
\* CurrentScreen::try_from of the digit of Message::Number
ScreenOf == ("1" :> "Folders") @@ ("2" :> "Devices") @@ ("3" :> "Pending") @@ ("4" :> "ID")

\* PendingFocus::next and prev
PendingFocusNext(f) == IF f = "Accept" THEN "Ignore" ELSE "Dismiss"
PendingFocusPrev(f) == IF f = "Dismiss" THEN "Ignore" ELSE "Accept"

\* submit of PendingDevicePopup and PendingShareFolderPopup; the message
\* "todo!" stands for the todo!() of the latter
PopupSubmit(popup) ==
    IF popup.kind = "PendingDevice"
    THEN Msg(CASE popup.focus = "Accept" -> "AcceptDevice"
               [] popup.focus = "Ignore" -> "IgnoreDevice"
               [] popup.focus = "Dismiss" -> "DismissDevice", popup.id)
    ELSE CASE popup.focus = "Accept" -> Msg("ShareFolder", popup.id)
           [] popup.focus = "Ignore" -> Msg("todo!", None)
           [] popup.focus = "Dismiss" -> Msg("DismissFolder", popup.id)

\* Popup::update of the two pending popups: the popup afterwards and the
\* message returned
PopupUpdate(popup, msg) ==
    CASE msg.ty = "Quit" -> [popup |-> popup, out |-> Msg("Quit", None)]
      [] msg.ty \in {"FocusNext", "Right"} ->
            [popup |-> [popup EXCEPT !.focus = PendingFocusNext(@)], out |-> NoMsg]
      [] msg.ty \in {"FocusBack", "Left"} ->
            [popup |-> [popup EXCEPT !.focus = PendingFocusPrev(@)], out |-> NoMsg]
      [] msg.ty \in {"Select", "Submit"} -> [popup |-> popup, out |-> PopupSubmit(popup)]
      [] OTHER -> [popup |-> popup, out |-> NoMsg]

\* the selection of update_folders and update_devices after Up or Down in a
\* list of len entries
SelectMoved(sel, msg, len) ==
    IF msg.ty \notin {"Up", "Down"} \/ len = 0 THEN sel
    ELSE IF sel # <<>> THEN <<Moved(msg.ty, sel[1], len)>>
    ELSE IF msg.ty = "Down" THEN <<0>> ELSE <<len - 1>>

\* pending_folders.get_sorted(): one (device, folder) entry per offerer
AppPendingFolders(st) == PushOffers(<<>>, st.pending_folders, SetToSeq(DOMAIN st.pending_folders))

\* the Select part of App::update_pending
AppSelectPending(a) ==
    LET ps == a.pending_state
        devs == SetToSeq(a.state.pending_devices)
        offers == AppPendingFolders(a.state)
        a1 == IF ps.devices_focused /\ ps.focused_device # <<>>
                 /\ ps.focused_device[1] < Len(devs)
              THEN [a EXCEPT !.popup = [kind |-> "PendingDevice", focus |-> "Accept",
                                        id |-> devs[ps.focused_device[1] + 1]]]
              ELSE a
    IN
    IF ~ps.devices_focused /\ ps.focused_folder # <<>> /\ ps.focused_folder[1] < Len(offers)
    THEN LET f == offers[ps.focused_folder[1] + 1][2] IN
         IF f \in SeqToSet(a.state.folders)
         THEN [a1 EXCEPT !.popup = [kind |-> "PendingShareFolder", focus |-> "Accept", id |-> f]]
         ELSE [a1 EXCEPT !.ui = "unimplemented"]
    ELSE a1

\* App::update_pending; checks: the build has overflow checks
app_update_pending(a, msg, checks) ==
    LET devices_len == Cardinality(a.state.pending_devices)
        folders_len == Len(AppPendingFolders(a.state))
    IN
    IF checks /\ Overflows(a.pending_state, msg.ty, devices_len, folders_len)
    THEN [a EXCEPT !.ui = "panicked"]
    ELSE LET a1 == [a EXCEPT !.pending_state = update(@, msg.ty, devices_len, folders_len),
                             !.counts = [devices |-> devices_len, folders |-> folders_len]]
         IN IF msg.ty = "Select" THEN AppSelectPending(a1) ELSE a1

\* the last match of App::update: the keys of the current screen
AppScreenUpdate(a, msg, checks) ==
    CASE a.current_screen = "Folders" ->
            [a EXCEPT !.selected_folder = SelectMoved(@, msg, Len(a.state.folders))]
      [] a.current_screen = "Devices" ->
            [a EXCEPT !.selected_device =
                          SelectMoved(@, msg, Len(app_get_other_devices(a.state)))]
      [] a.current_screen = "Pending" -> app_update_pending(a, msg, checks)
      [] OTHER -> a

\* the match on global messages of App::update, followed by the keys of
\* the screen unless the arm returns
AppGlobalUpdate(a, msg, checks) ==
    CASE msg.ty = "Quit" -> [a EXCEPT !.ui = "quit"]
      [] msg.ty = "Number" /\ msg.id \in DOMAIN ScreenOf ->
            [a EXCEPT !.current_screen = ScreenOf[msg.id]]
      [] msg.ty = "Reload" ->
            AppScreenUpdate([a EXCEPT !.spawned = @ (+) SetToBag({"Configuration"})],
                            msg, checks)
      [] msg.ty = "NewPendingDevice" ->
            AppScreenUpdate([a EXCEPT !.popup = [kind |-> "PendingDevice",
                                                 focus |-> "Accept", id |-> msg.id]],
                            msg, checks)
      [] msg.ty = "NewPendingFolder" ->
            IF msg.id \in SeqToSet(a.state.folders)
            THEN AppScreenUpdate([a EXCEPT !.popup = [kind |-> "PendingShareFolder",
                                                      focus |-> "Accept", id |-> msg.id]],
                                 msg, checks)
            ELSE [a EXCEPT !.ui = "unimplemented"]
      [] OTHER -> AppScreenUpdate(a, msg, checks)

\* the first match of App::update: mode switches and popup results
AppPopupResult(a, msg) ==
    CASE msg.ty \in {"AcceptDevice", "DismissDevice"} ->
            [a EXCEPT !.popup = NoPopup, !.requests = @ (+) SetToBag({msg})]
      [] msg.ty = "IgnoreDevice" -> [a EXCEPT !.popup = NoPopup, !.ui = "unimplemented"]
      [] OTHER -> a

\* App::update: the application afterwards and the message returned
app_update(a, msg, checks) ==
    LET a1 == AppPopupResult(a, msg) IN
    IF a1.ui # "running" THEN [a |-> a1, out |-> NoMsg]
    ELSE IF a1.popup # NoPopup
    THEN LET r == PopupUpdate(a1.popup, msg) IN
         CASE r.out.ty = "todo!" -> [a |-> [a1 EXCEPT !.ui = "unimplemented"], out |-> NoMsg]
           [] r.out.ty = "Quit" -> [a |-> [a1 EXCEPT !.popup = NoPopup], out |-> NoMsg]
           [] OTHER -> [a |-> [a1 EXCEPT !.popup = r.popup], out |-> r.out]
    ELSE [a |-> AppGlobalUpdate(a1, msg, checks), out |-> NoMsg]

\* the messages of the keyboard and of the event handler
UpdateMessages ==
    {Msg(ty, None) : ty \in {"Up", "Down", "Left", "Right", "Select", "Quit", "None"}}
    \cup {Msg("Number", n) : n \in {"2", "3"}}
    \cup {Msg("NewPendingDevice", d) : d \in DeviceIds}
    \cup {Msg("NewPendingFolder", f) : f \in FolderIds}

\* the loop of run takes a message and calls App::update until it returns
\* None
AppUpdate(msg, checks) ==
    /\ app.ui = "running"
    /\ LET r1 == app_update(app, msg, checks)
           r2 == IF r1.out = NoMsg \/ r1.a.ui # "running" THEN r1
                 ELSE app_update(r1.a, r1.out, checks)
           spawns == r2.a.requests # app.requests \/ r2.a.spawned # app.spawned
       IN /\ spawns => budget.ops > 0
          /\ app' = r2.a
          /\ budget' = IF spawns THEN [budget EXCEPT !.ops = @ - 1] ELSE budget
    /\ last' = Step("update", NoJob, TRUE, msg.ty)
    /\ UNCHANGED <<daemon, inner, reloadQ, sending, worker, relay, eventCh,
                   handler, calls, hist>>

\* ------------------------------------------------------ the devices screen
\* Vec::get of a list at an Option<usize> index: <<>> for None
GetAt(list, sel) ==
    IF sel # <<>> /\ sel[1] < Len(list) THEN <<list[sel[1] + 1]>> ELSE <<>>

\* devices_block of ui.rs: the row of the list that is highlighted and the
\* device whose details are shown beside it
devices_block_row(a) == GetAt(app_get_other_devices(a.state), a.selected_device)
devices_block_detail(a) == GetAt(app_get_devices(a.state), a.selected_device)

\* DevicesPage::render: the same two for the store of State
DevicesPage_row(st, sel) == GetAt(get_other_devices(st), sel)
DevicesPage_detail(st, sel) == GetAt(get_other_devices(st), sel)

\* a duplicate test that never finds the ID
DuplicateIdNever(st, folder_id) == FALSE

\* the duplicate test of App::handle_new_folder
DuplicateId(st, folder_id) == \E i \in DOMAIN st.folders : st.folders[i] = folder_id

\* App::handle_new_folder
handle_new_folder(folder_id) ==
    /\ budget.ops > 0
    /\ budget' = [budget EXCEPT !.ops = @ - 1]
    /\ IF DuplicateId(app.state, folder_id)
       THEN /\ app' = [app EXCEPT !.error = "DuplicateFolderID"]
            /\ last' = StepErr("handle_new_folder", "DuplicateFolderID", folder_id)
            /\ UNCHANGED hist
       ELSE /\ app' = [app EXCEPT !.posts = @ (+) SetToBag({folder_id})]
            /\ hist' = [hist EXCEPT !.gatewayCalls = @ + 1]
            /\ last' = Step("handle_new_folder", NoJob, TRUE, folder_id)
    /\ UNCHANGED <<daemon, inner, reloadQ, sending, worker, relay, eventCh,
                   handler, calls>>

\* the task of handle_new_folder: post_folder returned Ok, Message::None is sent
AppPostOk(folder_id) ==
    /\ BagIn(folder_id, app.posts)
    /\ daemon' = DaemonAddFolder(daemon, [id |-> folder_id, devices |-> <<>>])
    /\ app' = [app EXCEPT !.posts = @ (-) SetToBag({folder_id}),
                          !.rerender = @ + 1]
    /\ last' = Step("post_folder", NoJob, TRUE, folder_id)
    /\ UNCHANGED <<inner, reloadQ, sending, worker, relay, eventCh, handler,
                   calls, hist, budget>>

\* the task of handle_new_folder: post_folder returned Err, Message::None is sent
AppPostErr(folder_id) ==
    /\ BagIn(folder_id, app.posts)
    /\ budget.fails > 0
    /\ budget' = [budget EXCEPT !.fails = @ - 1]
    /\ app' = [app EXCEPT !.posts = @ (-) SetToBag({folder_id}),
                          !.error = "APIError",
                          !.rerender = @ + 1]
    /\ last' = StepErr("post_folder", "APIError", folder_id)
    /\ UNCHANGED <<daemon, inner, reloadQ, sending, worker, relay, eventCh,
                   handler, calls, hist>>

\* ------------------------------------------------------- specifications
\* the reload worker from construction on, with failing gateway calls
Next ==
    \/ \E job \in BagToSet(sending) : SendReload(job)
    \/ WorkerRecv
    \/ FetchOk
    \/ FetchErr
    \/ WorkerMerge

Init == Constructed({ConnectedDaemon, TwoFolderDaemon})

Spec == Init /\ [][Next]_vars

\* the event subscription and the event handler beside the reload worker
NextEvents ==
    \/ \E job \in BagToSet(sending) : SendReload(job)
    \/ WorkerRecv
    \/ FetchOk
    \/ WorkerMerge
    \/ RelayPoll
    \/ RelayFail
    \/ HandleEvent
    \/ HandlerSend
    \/ \E d \in DeviceIds : DaemonConnect(d)
    \/ \E d \in DeviceIds : DaemonDisconnect(d)
    \/ \E d \in DeviceIds : DaemonProgress(d)

InitEvents == Constructed({OneFolderDaemon, ConnectedDaemon})

SpecEvents == InitEvents /\ [][NextEvents]_vars

\* the dashboard once the reloads of State::new and their follow-ups have
\* been processed and the subscription has made its first poll (a state
\* SpecEvents reaches: SteadyReached)
SteadyDaemon == OneFolderDaemon

SteadyInner ==
    [folders |-> << [id |-> "f1", devices |-> <<LocalId>>, completion |-> 100] >>,
     devices |-> << DeviceFrom(LocalId), DeviceFrom("devY") >>,
     pending_folders |-> << <<"devY", "f1">> >>,
     pending_devices |-> << "devX" >>,
     events |-> <<>>,
     error |-> None, id |-> LocalId]

SteadyReached ==
    /\ daemon = SteadyDaemon
    /\ inner = SteadyInner
    /\ reloadQ = <<>> /\ sending = EmptyBag /\ worker.pc = "recv"
    /\ relay = [alive |-> TRUE, current_id |-> 0, skip_old |-> FALSE]
    /\ eventCh = <<>> /\ handler.pc = "recv" /\ calls = EmptyBag

SteadyWith(b, a) ==
    /\ daemon = SteadyDaemon
    /\ inner = SteadyInner
    /\ reloadQ = <<>>
    /\ sending = EmptyBag
    /\ worker = [pc |-> "recv", job |-> NoJob, ticket |-> 0, resp |-> NoResp]
    /\ relay = [alive |-> TRUE, current_id |-> 0, skip_old |-> FALSE]
    /\ eventCh = <<>>
    /\ handler = [pc |-> "recv", job |-> NoJob]
    /\ calls = EmptyBag
    /\ hist = HistInit([folders |-> SteadyDaemon.folders,
                         devices |-> SteadyDaemon.devices])
    /\ budget = b
    /\ last = Step("Init", NoJob, TRUE, None)
    /\ app = a

Steady(b) == SteadyWith(b, AppInit)

InitSteady(ops) == Steady([ops |-> ops, fails |-> MaxFail, env |-> MaxEnv])

\* the mutation operations on the running dashboard
NextOps ==
    \/ \E job \in BagToSet(sending) : SendReload(job)
    \/ WorkerRecv
    \/ FetchOk
    \/ WorkerMerge
    \/ \E d \in DeviceIds : accept_device(d)
    \/ \E f \in FolderIds : add_foler(f)
    \/ \E f \in FolderIds : remove_folder(f)
    \/ \E call \in BagToSet(calls) : MutationOk(call)
    \/ \E call \in BagToSet(calls) : MutationErr(call)

SpecOps == InitSteady(MaxOps) /\ [][NextOps]_vars

\* accept_device on the running dashboard, with the events the daemon emits
NextAccept ==
    \/ \E job \in BagToSet(sending) : SendReload(job)
    \/ WorkerRecv
    \/ FetchOk
    \/ WorkerMerge
    \/ RelayPoll
    \/ HandleEvent
    \/ HandlerSend
    \/ \E d \in DeviceIds : accept_device(d)
    \/ \E call \in BagToSet(calls) : MutationOk(call)
    \/ \E call \in BagToSet(calls) : MutationErr(call)

SpecAccept == InitSteady(MaxAccepts) /\ [][NextAccept]_vars

\* adding folders: App::handle_new_folder with the reload worker of App, and
\* State::add_foler with the tasks it spawns
NextApp ==
    \/ \E kind \in BagToSet(app.spawned) : AppSendReload(kind)
    \/ AppRecv
    \/ AppFetchOk
    \/ AppFetchErr
    \/ AppMerge
    \/ \E f \in FolderIds : handle_new_folder(f)
    \/ \E f \in BagToSet(app.posts) : AppPostOk(f)
    \/ \E f \in BagToSet(app.posts) : AppPostErr(f)
    \/ \E f \in FolderIds : add_foler(f)
    \/ \E call \in BagToSet(calls) : MutationOk(call)
    \/ \E call \in BagToSet(calls) : MutationErr(call)
    \/ \E job \in BagToSet(sending) : SendReload(job)

SpecApp == InitSteady(MaxOps) /\ [][NextApp]_vars

\* the pending lists of the daemon change under the running dashboard
NextPending ==
    \/ WorkerRecv
    \/ FetchOk
    \/ WorkerMerge
    \/ RelayPoll
    \/ HandleEvent
    \/ HandlerSend
    \/ \E d \in DeviceIds : DaemonAnnounce(d)
    \/ \E d \in DeviceIds : DaemonWithdraw(d)
    \/ \E d \in DeviceIds, f \in FolderIds : DaemonOffer(d, f)

InitPending == Steady([ops |-> 0, fails |-> 0, env |-> MaxOffers])

SpecPending == InitPending /\ [][NextPending]_vars

\* a burst of daemon events while the reload worker waits for the gateway
NextBurst ==
    \/ WorkerRecv
    \/ RelayPoll
    \/ HandleEvent
    \/ HandlerLagged
    \/ HandlerSend
    \/ \E d \in DeviceIds : DaemonAnnounce(d)
    \/ \E d \in DeviceIds : DaemonWithdraw(d)

InitBurst == Steady([ops |-> 0, fails |-> 0, env |-> MaxBurst])

SpecBurst == InitBurst /\ [][NextBurst]_vars

\* share_folder on the running dashboard, with the events the daemon emits
NextShare ==
    \/ \E job \in BagToSet(sending) : SendReload(job)
    \/ WorkerRecv
    \/ FetchOk
    \/ WorkerMerge
    \/ RelayPoll
    \/ HandleEvent
    \/ HandlerSend
    \/ \E f \in FolderIds, d \in DeviceIds : share_folder(f, d)
    \/ \E call \in BagToSet(calls) : MutationOk(call)
    \/ \E call \in BagToSet(calls) : MutationErr(call)

SpecShare == InitSteady(MaxOps) /\ [][NextShare]_vars

\* dismissing pending devices and offers on the running dashboard
NextDismiss ==
    \/ WorkerRecv
    \/ FetchOk
    \/ WorkerMerge
    \/ RelayPoll
    \/ HandleEvent
    \/ HandlerSend
    \/ \E d \in DeviceIds : dismiss_device(d)
    \/ \E f \in FolderIds, d \in DeviceIds : dismiss_folder(f, d)
    \/ \E call \in BagToSet(calls) : MutationOk(call)
    \/ \E call \in BagToSet(calls) : MutationErr(call)

SpecDismiss == InitSteady(MaxOps) /\ [][NextDismiss]_vars

\* the running dashboard when no gateway call fails: the user's operations,
\* a device announcing itself at the daemon, and the tasks that carry the
\* changes back into the store
NextConverge ==
    \/ \E job \in BagToSet(sending) : SendReload(job)
    \/ WorkerRecv
    \/ FetchOk
    \/ WorkerMerge
    \/ RelayPoll
    \/ HandleEvent
    \/ HandlerSend
    \/ \E f \in FolderIds, d \in DeviceIds : share_folder(f, d)
    \/ \E d \in DeviceIds : dismiss_device(d)
    \/ \E d \in DeviceIds : DaemonWithdraw(d)
    \/ \E call \in BagToSet(calls) : MutationOk(call)

InitConverge == Steady([ops |-> MaxOps, fails |-> 0, env |-> MaxEnv])

\* the tokio runtime runs every task that can run, and every gateway call
\* returns
SpecConverge ==
    /\ InitConverge /\ [][NextConverge]_vars
    /\ WF_vars(\E job \in BagToSet(sending) : SendReload(job))
    /\ WF_vars(WorkerRecv)
    /\ WF_vars(FetchOk)
    /\ WF_vars(WorkerMerge)
    /\ WF_vars(RelayPoll)
    /\ WF_vars(HandleEvent)
    /\ WF_vars(HandlerSend)
    /\ WF_vars(\E call \in BagToSet(calls) : MutationOk(call))

\* the reloads of State::new and of App::new run to their end and the store
\* is read meanwhile
NextRead ==
    \/ \E job \in BagToSet(sending) : SendReload(job)
    \/ WorkerRecv
    \/ FetchOk
    \/ WorkerMerge
    \/ \E kind \in BagToSet(app.spawned) : AppSendReload(kind)
    \/ AppRecv
    \/ AppFetchOk
    \/ AppMerge

\* App once its four reloads have been merged (a state SpecApp reaches)
AppLoaded ==
    [AppInit EXCEPT
       !.state = [folders |-> Ids(SteadyDaemon.folders),
                  devices |-> SeqToSet(SteadyDaemon.devices),
                  id |-> LocalId,
                  pending_devices |-> SteadyDaemon.pendingDevices,
                  pending_folders |-> PendingFoldersOf(SteadyDaemon)],
       !.spawned = EmptyBag,
       !.resp = [ok |-> TRUE, val |-> LocalId],
       !.job = "ID",
       !.rerender = 4]

\* either store is being filled for the first time while the other is loaded
InitRead ==
    \/ ConstructedState({OneFolderDaemon}) /\ app = AppLoaded
    \/ Steady([ops |-> 0, fails |-> 0, env |-> 0])

SpecRead == InitRead /\ [][NextRead]_vars

\* the reload channel is full under the worker: f1 was shared with devX,
\* the worker has taken the Configuration reload of the ConfigSaved event
\* and waits for the gateway, and devX has gone away and announced itself
\* again until the PendingDevices reloads of the events filled the channel
\* (a state the dashboard reaches from Steady)
FullEvents ==
    <<Event("ConfigSaved", None)>>
       \o [i \in 1..ReloadCap |->
             Event("PendingDevicesChanged", IF i % 2 = 1 THEN None ELSE "devX")]

InitFull ==
    /\ daemon = [SteadyDaemon EXCEPT
                   !.folders = <<[id |-> "f1", devices |-> <<LocalId, "devX">>]>>,
                   !.events = FullEvents]
    /\ inner = [SteadyInner EXCEPT !.folders[1].devices = <<LocalId, "devX">>]
    /\ reloadQ = [i \in 1..ReloadCap |->
                    [job |-> ReloadPendingDevices, ticket |-> i + 1]]
    /\ sending = EmptyBag
    /\ worker = [pc |-> "call", job |-> ReloadConfiguration, ticket |-> 1,
                 resp |-> NoResp]
    /\ relay = [alive |-> TRUE, current_id |-> Len(FullEvents), skip_old |-> FALSE]
    /\ eventCh = <<>>
    /\ handler = [pc |-> "recv", job |-> NoJob]
    /\ calls = EmptyBag
    /\ hist = [HistInit([folders |-> SteadyDaemon.folders,
                         devices |-> SteadyDaemon.devices])
                 EXCEPT !.tickets = ReloadCap + 1, !.started = 1,
                        !.gatewayCalls = 1,
                        !.delivered = Len(FullEvents),
                        !.handled = Len(FullEvents)]
    /\ budget = [ops |-> 0, fails |-> 0, env |-> MaxEnv]
    /\ last = Quiet
    /\ app = AppInit

\* the worker works the full channel off while its follow-up reloads and
\* the reload of one more event wait for room
NextFull ==
    \/ \E job \in BagToSet(sending) : SendReload(job)
    \/ WorkerRecv
    \/ FetchOk
    \/ WorkerMerge
    \/ RelayPoll
    \/ HandleEvent
    \/ HandlerSend
    \/ \E d \in DeviceIds : DaemonWithdraw(d)

\* the tokio runtime runs every task that can run, and every gateway call
\* returns
SpecFull ==
    /\ InitFull /\ [][NextFull]_vars
    /\ WF_vars(\E job \in BagToSet(sending) : SendReload(job))
    /\ WF_vars(WorkerRecv)
    /\ WF_vars(FetchOk)
    /\ WF_vars(WorkerMerge)
    /\ WF_vars(RelayPoll)
    /\ WF_vars(HandleEvent)
    /\ WF_vars(HandlerSend)

\* the subscription gets responses that repeat events, while the pending
\* devices of the daemon change
NextReplay ==
    \/ WorkerRecv
    \/ FetchOk
    \/ WorkerMerge
    \/ RelayPoll
    \/ \E k \in 1..MaxOffers : RelayPollReplayed(k)
    \/ HandleEvent
    \/ HandlerSend
    \/ \E d \in DeviceIds : DaemonAnnounce(d)
    \/ \E d \in DeviceIds : DaemonWithdraw(d)

SpecReplay == InitPending /\ [][NextReplay]_vars

\* both generations of the dashboard follow the pending devices of the
\* daemon, and the presentation layer of App may go away
NextNotice ==
    \/ RelayPoll
    \/ HandleEvent
    \/ HandlerSend
    \/ AppRelayPoll
    \/ AppHandleEvent
    \/ AppNotify
    \/ AppHandlerSend
    \/ AppRecv
    \/ AppFetchOk
    \/ AppMerge
    \/ AppQuit
    \/ \E d \in DeviceIds : DaemonAnnounce(d)
    \/ \E d \in DeviceIds : DaemonWithdraw(d)

InitNotice == SteadyWith([ops |-> 0, fails |-> 0, env |-> MaxOffers], AppLoaded)

SpecNotice == InitNotice /\ [][NextNotice]_vars

\* both generations of the dashboard handle saved configurations and
\* events of kinds they have no match arm for
NextKinds ==
    \/ RelayPoll
    \/ HandleEvent
    \/ HandlerSend
    \/ AppRelayPoll
    \/ AppHandleEvent
    \/ AppHandlerSend
    \/ DaemonSave
    \/ \E ty \in OtherKinds : DaemonOther(ty)

SpecKinds == InitNotice /\ [][NextKinds]_vars

\* either store is being filled for the first time, with gateway calls
\* that may fail
NextErr ==
    \/ \E job \in BagToSet(sending) : SendReload(job)
    \/ WorkerRecv
    \/ FetchOk
    \/ FetchErr
    \/ WorkerMerge
    \/ \E kind \in BagToSet(app.spawned) : AppSendReload(kind)
    \/ AppRecv
    \/ AppFetchOk
    \/ AppFetchErr
    \/ AppMerge

InitErr ==
    \/ ConstructedState({OneFolderDaemon}) /\ app = AppLoaded
    \/ Steady([ops |-> 0, fails |-> MaxFail, env |-> 0])

SpecErr == InitErr /\ [][NextErr]_vars

\* the pending page gets messages while the pending lists change in length
NextPage ==
    \E msg \in PageMessages, devices_len, folders_len \in 0..MaxCount, checks \in BOOLEAN :
        AppUpdatePending(msg, devices_len, folders_len, checks)

SpecPage == InitNotice /\ [][NextPage]_vars

\* the dashboard of App gets keys and the messages of its event handler
NextUpdate ==
    \E msg \in UpdateMessages, checks \in BOOLEAN : AppUpdate(msg, checks)

InitUpdate == SteadyWith([ops |-> MaxAccepts, fails |-> 0, env |-> 0], AppLoaded)

SpecUpdate == InitUpdate /\ [][NextUpdate]_vars

\* the scheduler runs every task that can run: the spawned senders, the
\* worker, and every gateway call returns
SpecFair ==
    /\ Spec
    /\ WF_vars(\E job \in BagToSet(sending) : SendReload(job))
    /\ WF_vars(WorkerRecv)
    /\ WF_vars(FetchOk \/ FetchErr)
    /\ WF_vars(WorkerMerge)

\* ------------------------------------------------------------------ claims
Busy == worker.pc \in {"call", "merge"}

\* C1: the worker runs the jobs one at a time in the order they entered the
\* queue: tickets are handed out on entry, the queue holds the tickets after
\* the one whose gateway call began last in increasing order, the job in the
\* worker's hands is that one, and its call began only when every earlier
\* ticket had been merged
C1_ReloadsInQueueOrder ==
    /\ \A i \in DOMAIN reloadQ : reloadQ[i].ticket = hist.started + i
    /\ Busy => worker.ticket = hist.started /\ hist.finished + 1 = hist.started
    /\ worker.pc = "recv" => hist.finished = hist.started

C1_Witness ==
    /\ hist.finished >= 2
    /\ worker.pc = "call"
    /\ Len(reloadQ) >= 2

\* C2: once a Configuration reload has been merged, the folders and the
\* devices of the store are exactly those of the snapshot merged last, in
\* every later state
C2_StoreEqualsLastSnapshot ==
    /\ Ids(inner.folders) = Ids(hist.lastConf.folders)
    /\ Ids(inner.devices) = hist.lastConf.devices

C2_Witness ==
    /\ last.step = "WorkerMerge" /\ last.job.kind = "Configuration" /\ last.ok
    /\ Ids(inner.folders) = <<"f2">>
    /\ hist.cfgOk >= 1

\* C3: every finished job, failed or not, is followed by one notification
\* before the next job is taken: the worker's notifications equal the jobs
\* finished whenever it waits for a job, and while it works on a job
C3_NotifiedAfterEveryJob ==
    /\ worker.pc = "recv" => hist.notified = hist.started
    /\ Busy => hist.notified + 1 = hist.started /\ hist.notified = hist.finished

C3_Witness ==
    /\ last.step = "WorkerMerge" /\ ~last.ok
    /\ hist.finished >= 2
    /\ hist.notified = hist.finished

\* C4: a failed gateway call does not stop the worker: again and again every
\* job that entered the queue has been finished, also the ones behind a
\* failed job
C4_FailureDoesNotStopWorker == []<>(hist.finished = hist.tickets)

C4_Witness ==
    /\ hist.failed >= 1
    /\ hist.finished > hist.lastFailed
    /\ worker.pc = "recv"

\* C5: after a reload job whose gateway call failed the error slot holds an
\* error
C5_ErrorSlotSetOnFailure ==
    (last.step = "WorkerMerge" /\ ~last.ok) => inner.error # None

\* copies of a job among the spawned senders, in the queue, in the worker's
\* hands and among the finished jobs
InSystem(job) ==
    CopiesIn(job, sending)
    + Cardinality({i \in DOMAIN reloadQ : reloadQ[i].job = job})
    + (IF Busy /\ worker.job = job THEN 1 ELSE 0)
    + CopiesIn(job, hist.done)

C6_Requested ==
    /\ InSystem(ReloadConnections) = hist.cfgOk
    /\ \A f \in FolderIds :
          InSystem(ReloadCompletion(f, None)) = CopiesIn(f, hist.cfgFolders)

C6_Processed ==
    /\ CopiesIn(ReloadConnections, hist.done) = hist.cfgOk
    /\ \A f \in FolderIds :
          CopiesIn(ReloadCompletion(f, None), hist.done) = CopiesIn(f, hist.cfgFolders)

\* C6: each successful Configuration fetch requests one Connections reload
\* and one Completion{folder} reload per folder of the snapshot, a failed one
\* requests none, none is lost, and all of them are processed in the end
C6_ConfigurationFollowUps == []C6_Requested /\ []<>C6_Processed

C6_Witness ==
    /\ hist.cfgOk = 1
    /\ Len(hist.lastConf.folders) = 2
    /\ CopiesIn(ReloadCompletion("f2", None), hist.done) = 1
    /\ C6_Processed

\* C7: accept_device for a device that is not in the pending list reports
\* UnknownDevice, starts no gateway call, requests no reload and leaves the
\* view-model as it was
C7_UnknownDeviceRejected ==
    [][(last'.step = "accept_device" /\ last'.id \notin SeqToSet(inner.pending_devices))
         => /\ last'.err = "UnknownDevice"
            /\ calls' = calls
            /\ hist'.gatewayCalls = hist.gatewayCalls
            /\ sending' = sending
            /\ reloadQ' = reloadQ
            /\ inner' = inner]_vars

C7_Witness ==
    /\ last.step = "accept_device"
    /\ last.id = "devY"
    /\ last.err = "UnknownDevice"
    /\ calls = EmptyBag

\* this step requests a Configuration reload on behalf of an add-folder task
FolderReloadRequested ==
    \E j \in BagToSet(sending') :
        /\ j.kind = "Configuration" /\ j.origin \in FolderIds
        /\ CopiesIn(j, sending') > CopiesIn(j, sending)

AcceptReloadMerged ==
    /\ last.step = "WorkerMerge"
    /\ last.job.kind = "Configuration"
    /\ last.job.origin \in DeviceIds
    /\ last.ok

\* C9 as stated: once the Configuration reload that accept_device requested
\* has been processed, the device is configured and no longer pending
C9_AcceptedNoLongerPending ==
    AcceptReloadMerged =>
        /\ last.job.origin \in IdSet(inner.devices)
        /\ last.job.origin \notin SeqToSet(inner.pending_devices)

\* C9 amended: accept_device of a pending device issues the add-device call;
\* its success, and only its success, requests a Configuration reload; once
\* that reload has been merged the device is among the configured devices;
\* the pending list changes only when a PendingDevices reload is merged
C9_AcceptedConfigured ==
    /\ [](AcceptReloadMerged => last.job.origin \in IdSet(inner.devices))
    /\ [][/\ (last'.step = "accept_device" /\ last'.id \in SeqToSet(inner.pending_devices))
              => calls' = calls (+) SetToBag({Call("add_device", last'.id)})
          /\ (last'.step = "add_device" /\ last'.ok)
              => sending' = sending (+)
                     SetToBag({[ReloadConfiguration EXCEPT !.origin = last'.id]})
          /\ (last'.step = "add_device" /\ ~last'.ok) => sending' = sending
          /\ (inner'.pending_devices # inner.pending_devices)
              => (last'.step = "WorkerMerge" /\ last'.job.kind = "PendingDevices"
                  /\ last'.ok)]_vars

C9_Witness ==
    /\ AcceptReloadMerged
    /\ last.job.origin = "devX"
    /\ "devX" \in IdSet(inner.devices)
    /\ "devX" \in SeqToSet(inner.pending_devices)

\* C10: handling a device-connected event for a device of the store sets its
\* status to UpToDate in that very step, publishes one notification, and
\* involves no reload: none is enqueued and none finishes
C10_ConnectedEventSetsUpToDate ==
    [][(last'.step = "DeviceConnected" /\ last'.id \in IdSet(inner.devices))
         => /\ inner'.devices[FindIdx(inner.devices, last'.id)].connected = UpToDate
            /\ hist'.evNotified = hist.evNotified + 1
            /\ hist'.done = hist.done
            /\ hist'.started = hist.started
            /\ reloadQ' = reloadQ
            /\ sending' = sending
            /\ handler' = handler]_vars

C10_Witness ==
    /\ last.step = "DeviceConnected" /\ last.ok /\ last.id = "devY"
    /\ inner.devices[FindIdx(inner.devices, "devY")].connected = UpToDate
    /\ CopiesIn(ReloadConnections, hist.done) = 0
    /\ hist.evNotified = 1

\* a successful Configuration reload is merged by this step
ConfigurationMerged ==
    /\ last'.step = "WorkerMerge"
    /\ last'.job.kind = "Configuration"
    /\ last'.ok

\* C11: when a Configuration snapshot is merged, a device that was in the
\* store and is in the snapshot keeps its connection status, and a folder
\* that was in the store and is in the snapshot keeps its completion
C11_DerivedFieldsPreserved ==
    [][ConfigurationMerged =>
         /\ \A i \in DOMAIN inner.devices : \A j \in DOMAIN inner'.devices :
               inner.devices[i].id = inner'.devices[j].id
                  => inner'.devices[j].connected = inner.devices[i].connected
         /\ \A i \in DOMAIN inner.folders : \A j \in DOMAIN inner'.folders :
               inner.folders[i].id = inner'.folders[j].id
                  => inner'.folders[j].completion = inner.folders[i].completion]_vars

\* the offers of a fetched PendingFolders result, as (introducer, folder) pairs
OfferPairs(pending) ==
    UNION {{<<d, f>> : d \in pending[f]} : f \in DOMAIN pending}

\* a successful reload of the given kind is merged by this step
Merged(kind) ==
    /\ last'.step = "WorkerMerge"
    /\ last'.job.kind = kind
    /\ last'.ok

\* two stores with the same entries in their pending lists (in any order,
\* the order being that of a map iteration) and equal otherwise
SamePending(a, b) ==
    /\ SeqToSet(a.pending_folders) = SeqToSet(b.pending_folders)
    /\ Len(a.pending_folders) = Len(b.pending_folders)
    /\ SeqToSet(a.pending_devices) = SeqToSet(b.pending_devices)
    /\ Len(a.pending_devices) = Len(b.pending_devices)
    /\ [a EXCEPT !.pending_folders = <<>>, !.pending_devices = <<>>]
         = [b EXCEPT !.pending_folders = <<>>, !.pending_devices = <<>>]

\* C12: merging a PendingFolders result leaves exactly one entry per (folder,
\* offering device) pair of the result, whatever the store held before, and
\* merging the same result again changes nothing; the same for PendingDevices
C12_PendingMergeIdempotent ==
    [][/\ Merged("PendingFolders") =>
            /\ SeqToSet(inner'.pending_folders) = OfferPairs(worker.resp.val)
            /\ Len(inner'.pending_folders) = Cardinality(OfferPairs(worker.resp.val))
            /\ SamePending(set_pending_folders(inner', worker.resp.val), inner')
       /\ Merged("PendingDevices") =>
            /\ SeqToSet(inner'.pending_devices) = worker.resp.val
            /\ Len(inner'.pending_devices) = Cardinality(worker.resp.val)
            /\ SamePending(set_pending_devices(inner', worker.resp.val), inner')]_vars

\* the same offers have been merged twice, two of them for one folder
C12_Witness ==
    /\ last.step = "WorkerMerge" /\ last.job.kind = "PendingFolders" /\ last.ok
    /\ CopiesIn(ReloadPendingFolders, hist.done) = 2
    /\ {<<"devX", "f1">>, <<"devY", "f1">>} \subseteq SeqToSet(inner.pending_folders)
    /\ Len(inner.pending_folders) = 3
    /\ OfferPairs(PendingFoldersOf(daemon)) = SeqToSet(inner.pending_folders)

\* C13: handling a PendingDevicesChanged event that adds devX makes the
\* handler send a PendingDevices reload, which enters the queue; a
\* PendingDevices reload processed against the pending list {devX} leaves
\* exactly one pending device in the store, devX
C13_PendingDeviceAppears ==
    [][/\ (last'.step = "PendingDevicesChanged" /\ last'.id = "devX")
            => /\ handler'.pc = "send"
               /\ handler'.job = ReloadPendingDevices
       /\ (handler.pc = "send" /\ handler.job = ReloadPendingDevices
             /\ handler'.pc = "recv")
            => /\ Len(reloadQ') = Len(reloadQ) + 1
               /\ reloadQ'[Len(reloadQ')].job = ReloadPendingDevices
       /\ (Merged("PendingDevices") /\ worker.resp.val = {"devX"})
            => inner'.pending_devices = <<"devX">>]_vars

\* devX was withdrawn and announced again, and the reload shows it
C13_Witness ==
    /\ last.step = "WorkerMerge" /\ last.job.kind = "PendingDevices" /\ last.ok
    /\ Len(daemon.events) = 2
    /\ daemon.events[2] = Event("PendingDevicesChanged", "devX")
    /\ hist.finished = 2
    /\ inner.pending_devices = <<"devX">>

\* C14: when the event subscription ends with an error the error slot holds
\* an error and the subscription task is over: it polls no more, and the
\* reload worker goes on
C14_SubscriptionFailureRecorded ==
    [][/\ (last'.step = "RelayFail")
            => /\ inner'.error # None
               /\ ~relay'.alive
               /\ worker' = worker /\ reloadQ' = reloadQ
       /\ ~relay.alive => relay' = relay]_vars

\* C15: the events the subscription delivered are handled in the order of
\* their emission, each exactly once: those not handled yet wait in the
\* channel in that order, none is lost or repeated, and the handler is
\* there to take them
C15_EventsHandledInOrderOnce ==
    /\ handler.pc # "stopped"
    /\ hist.handled + Len(eventCh) = hist.delivered
    /\ Len(eventCh) <= relay.current_id
    /\ eventCh = SubSeq(daemon.events, relay.current_id - Len(eventCh) + 1,
                        relay.current_id)

\* C18: dismiss_device and dismiss_folder only start the dismiss request:
\* neither they nor their tasks request a reload or touch the store; an entry
\* leaves the pending lists of the store only when a PendingDevices /
\* PendingFolders reload is merged, and that reload is sent by the handler of
\* the pending-changed event
C18_DismissLeavesRefreshToEvents ==
    [][/\ (last'.step = "dismiss_device")
            => /\ calls' = calls (+) SetToBag({Call("dismiss_pending_device", last'.id)})
               /\ inner' = inner /\ sending' = sending /\ reloadQ' = reloadQ
       /\ (last'.step = "dismiss_folder")
            => /\ calls' = calls (+) SetToBag({[Call("dismiss_pending_folder", last'.id)
                                  EXCEPT !.arg = last'.job.device_id]})
               /\ hist'.gatewayCalls = hist.gatewayCalls + 1
               /\ inner' = inner /\ sending' = sending /\ reloadQ' = reloadQ
       /\ (last'.step \in {"dismiss_pending_device", "dismiss_pending_folder"})
            => /\ inner' = inner /\ sending' = sending /\ reloadQ' = reloadQ
       /\ (inner'.pending_devices # inner.pending_devices)
            => Merged("PendingDevices")
       /\ (inner'.pending_folders # inner.pending_folders)
            => Merged("PendingFolders")
       /\ (Len(reloadQ') > Len(reloadQ))
            => /\ handler.pc = "send" /\ handler'.pc = "recv"
               /\ reloadQ'[Len(reloadQ')].job = handler.job]_vars

\* devX was dismissed at the daemon and is still pending in the store
C18_Witness ==
    /\ last.step = "dismiss_pending_device" /\ last.ok /\ last.id = "devX"
    /\ calls = EmptyBag
    /\ "devX" \notin daemon.pendingDevices
    /\ "devX" \in SeqToSet(inner.pending_devices)
    /\ reloadQ = <<>> /\ sending = EmptyBag

\* C19: share_folder(f, d) on a folder of the store appends d to the folder's
\* device list in the store, changes nothing else there, and starts a task
\* that posts the folder configuration with d in it; on a folder that is not
\* in the store it reports UnknownFolder, starts no task and leaves the store
\* as it was; neither share_folder nor its task requests a reload
C19_ShareFolderAppendsAndPosts ==
    [][/\ (last'.step = "share_folder" /\ last'.id \in IdSet(inner.folders))
            => LET i == FindIdx(inner.folders, last'.id)
                   shared == Append(inner.folders[i].devices, last'.job.device_id)
               IN /\ last'.ok
                  /\ inner' = [inner EXCEPT !.folders[i].devices = shared]
                  /\ calls' = calls (+) SetToBag({[Call("post_folder", last'.id) EXCEPT
                                 !.arg = [id |-> last'.id, devices |-> shared]]})
                  /\ hist'.gatewayCalls = hist.gatewayCalls + 1
                  /\ sending' = sending /\ reloadQ' = reloadQ
       /\ (last'.step = "share_folder" /\ last'.id \notin IdSet(inner.folders))
            => /\ last'.err = "UnknownFolder"
               /\ calls' = calls
               /\ hist'.gatewayCalls = hist.gatewayCalls
               /\ inner' = inner
               /\ sending' = sending /\ reloadQ' = reloadQ
       /\ (last'.step = "post_folder")
            => /\ inner' = inner /\ sending' = sending /\ reloadQ' = reloadQ]_vars

\* f1 has just been shared with devY
C19_Witness ==
    /\ last.step = "share_folder" /\ last.ok /\ last.id = "f1"
    /\ last.job.device_id = "devY"
    /\ inner.folders[1].devices = <<LocalId, "devY">>
    /\ CopiesIn([Call("post_folder", "f1") EXCEPT
                    !.arg = [id |-> "f1", devices |-> <<LocalId, "devY">>]], calls) > 0
    /\ daemon.folders[1].devices = <<LocalId>>

\* the pairs (folder, device) of the folders' device lists in the store
ConfiguredPairs(st) ==
    UNION {{<<st.folders[i].id, d>> : d \in SeqToSet(st.folders[i].devices)} :
             i \in DOMAIN st.folders}

\* C20: a device enters the device list of a folder in the store only when
\* a Configuration reload is merged, and then the daemon has the pair (the
\* mutation has succeeded); once in the list the pair stays (no step of the
\* specification removes a folder or a device)
C20_ConfiguredOnlyAfterConfirmation ==
    [][/\ (ConfiguredPairs(inner') \ ConfiguredPairs(inner) # {})
            => /\ Merged("Configuration")
               /\ ConfiguredPairs(inner') \subseteq ConfiguredPairs(daemon)
       /\ ConfiguredPairs(inner) \subseteq ConfiguredPairs(inner')]_vars

\* C17: when the error slot is not empty, the next reload job whose gateway
\* call succeeds leaves it empty, in the store of State and in App alike
C17_ErrorClearedBySuccessfulReload ==
    [][/\ (app.error # None /\ last'.step = "AppMerge" /\ last'.ok)
            => app'.error = None
       /\ (inner.error # None /\ last'.step = "WorkerMerge" /\ last'.ok)
            => inner'.error = None]_vars

\* the folders with their device lists, the devices and the pending lists
\* of the store are those of the daemon
Converged ==
    /\ [i \in DOMAIN inner.folders |->
          [id |-> inner.folders[i].id, devices |-> inner.folders[i].devices]]
         = daemon.folders
    /\ [i \in DOMAIN inner.devices |-> inner.devices[i].id] = daemon.devices
    /\ SeqToSet(inner.pending_devices) = daemon.pendingDevices
    /\ Len(inner.pending_devices) = Cardinality(daemon.pendingDevices)
    /\ SeqToSet(inner.pending_folders) = daemon.pendingFolders
    /\ Len(inner.pending_folders) = Cardinality(daemon.pendingFolders)

\* C16: when no gateway call fails, every event is delivered and the daemon
\* stops changing, the store comes to equal the daemon's configuration and
\* pending lists and stays equal
C16_EventualConvergence == <>[]Converged

\* every operation has been used, the daemon has changed in its folders and
\* in its pending devices, and the last reload brought the store level
C16_Witness ==
    /\ Converged
    /\ budget.ops = 0
    /\ last.step = "WorkerMerge" /\ last.ok
    /\ daemon.folders # SteadyDaemon.folders
    /\ daemon.pendingDevices # SteadyDaemon.pendingDevices
    /\ calls = EmptyBag /\ sending = EmptyBag /\ reloadQ = <<>> /\ eventCh = <<>>

\* two reload requests of the same kind and scope
SameReload(a, b) ==
    /\ a.kind = b.kind /\ a.folder_id = b.folder_id /\ a.device_id = b.device_id

\* C21: requests of the same kind and scope that wait in the queue together
\* are served by one gateway fetch: when the worker takes a job and issues
\* its fetch, no request of the same kind and scope is left waiting
C21_QueuedReloadsDeduplicated ==
    [][(worker.pc = "recv" /\ worker'.pc = "call")
          => \A i \in DOMAIN reloadQ' : ~SameReload(reloadQ'[i].job, worker'.job)]_vars

\* C22: get_events(tx, skip_old = true) transmits every event that occurs
\* after the call, once and in id order. The daemon has emitted nothing when
\* State::new makes the call, so every event of daemon.events is such an
\* event: what the subscription has consumed it has transmitted, and what
\* waits in the channel is the newest of it in emission order
C22_NewEventsTransmittedOnce ==
    /\ hist.delivered = relay.current_id
    /\ (eventCh = <<>> \/ Head(eventCh) # Lagged)
          => /\ Len(eventCh) <= relay.current_id
             /\ eventCh = SubSeq(daemon.events, relay.current_id - Len(eventCh) + 1,
                                 relay.current_id)

\* the devices of a store whose ID is not the store's own
OthersOf(ids, own) == {d \in ids : d # own}

ShownConnected(st, d) ==
    /\ get_device_mut(st, d) # 0
    /\ st.devices[get_device_mut(st, d)].connected.tag # "Disconnected"

\* every event the daemon has emitted has been handled
EventsDrained ==
    /\ relay.current_id = Len(daemon.events)
    /\ eventCh = <<>>
    /\ handler.pc = "recv"

\* C24 (connection status): the handler has just written the status of a
\* device from the newest event about it, every event has been handled and
\* the store shows what the daemon reports now; the merge of a Connections
\* snapshot does not replace that status by a different one, which could
\* only be older
C24_NoStaleSnapshotOverFresher ==
    [][\A d \in DeviceIds :
         (/\ Merged("Connections")
          /\ last.step \in {"DeviceConnected", "DeviceDisconnected"}
          /\ last.id = d /\ last.ok
          /\ EventsDrained
          /\ ShownConnected(inner, d) = (d \in daemon.connected))
            => ShownConnected(inner', d) = (d \in daemon.connected)]_vars

C26_HandlerRunsWhileSubscribed ==
    relay.alive => handler.pc # "stopped"

\* every reload that was requested has been executed
AllReloadsExecuted ==
    /\ sending = EmptyBag
    /\ reloadQ = <<>>
    /\ worker.pc = "recv"
    /\ hist.finished = hist.tickets
    /\ CopiesIn(ReloadConnections, hist.done) = hist.cfgOk

\* C27: the worker is never held up by its own queue: with the response in
\* hand it can always finish the job, however full the queue is, and every
\* reload that is requested, the follow-ups of the Configuration and
\* Connections jobs included, is executed in the end
C27_WorkerNeverBlockedByOwnQueue ==
    /\ [](worker.pc = "merge" => ENABLED WorkerMerge)
    /\ <>[]AllReloadsExecuted

\* the worker has finished the Configuration job and requested its
\* follow-ups while the queue was full
C27_Witness ==
    /\ last.step = "WorkerMerge" /\ last.job.kind = "Configuration" /\ last.ok
    /\ Len(reloadQ) = ReloadCap
    /\ BagIn(ReloadConnections, sending)
    /\ worker.pc = "recv"

\* the connect / disconnect events the daemon has emitted about device d
ConnectionEvents(d) ==
    SelectSeq(daemon.events,
              LAMBDA e : e.id = d /\ e.ty \in {"DeviceConnected", "DeviceDisconnected"})

\* the disconnect of d has been handled and no later event about its
\* connection exists: every event was relayed and handled, and the last one
\* about d is DeviceDisconnected
DisconnectHandled(d) ==
    /\ EventsDrained
    /\ hist.delivered = Len(daemon.events)
    /\ hist.handled = hist.delivered
    /\ ConnectionEvents(d) # <<>>
    /\ ConnectionEvents(d)[Len(ConnectionEvents(d))].ty = "DeviceDisconnected"

\* C28: after the disconnect of a device has been handled, its status
\* leaves Disconnected only through a Connections reload (or a later
\* connect event): no Completion job sets it back to UpToDate or Syncing
C28_DisconnectedStaysDisconnected ==
    [][\A d \in DeviceIds :
         (/\ DisconnectHandled(d)
          /\ get_device_mut(inner, d) # 0
          /\ ~ShownConnected(inner, d)
          /\ ShownConnected(inner', d))
            => Merged("Connections")]_vars

\* C29: the mark sent as `since` never decreases, and a poll forwards no
\* event at or below the mark: what it forwards is at most what the mark
\* advances by (ids may have gaps, so it can be less)
C29_MarkMonotonicNoDuplicates ==
    [][/\ relay'.current_id >= relay.current_id
       /\ hist'.delivered - hist.delivered <= relay'.current_id - relay.current_id]_vars

\* C30: handling a pending-devices-changed event enqueues exactly one
\* PendingDevices reload; with a non-empty added list a notification is
\* published as well; a failed publication leaves the error slot alone and
\* the reload is enqueued all the same (for State and for App)
C30_PendingDevicesReloadAndNotice ==
    [][/\ (last'.step = "PendingDevicesChanged" /\ handler' # handler)
             => /\ handler'.pc = "send" /\ handler'.job = ReloadPendingDevices
                /\ last'.id # None => hist'.evNotified = hist.evNotified + 1
       /\ (handler.pc = "send" /\ handler.job = ReloadPendingDevices /\ handler'.pc = "recv")
             => /\ Len(reloadQ') = Len(reloadQ) + 1
                /\ reloadQ'[Len(reloadQ')].job = ReloadPendingDevices
       /\ (last'.step = "AppHandleEvent" /\ last'.job.kind = "PendingDevices")
             => app'.hpc = IF last'.id # None THEN "notify" ELSE "send"
       /\ (last'.step = "AppNotify" /\ last'.job.kind = "PendingDevices")
             => /\ app'.hpc = "send"
                /\ app'.error = app.error
                /\ app.open => app'.notices = app.notices + 1
       /\ (last'.step = "AppHandlerSend" /\ last'.job.kind = "PendingDevices")
             => /\ app'.queue = Append(app.queue, "PendingDevices")
                /\ app'.error = app.error]_vars

\* C31: handling a configuration-saved event enqueues exactly one
\* Configuration reload and leaves folders, devices and the pending
\* collections of the store as they are (for State and for App)
C31_ConfigSavedEnqueuesOneReload ==
    [][/\ (last'.step = "ConfigSaved")
             => /\ handler' = [pc |-> "send", job |-> ReloadConfiguration]
                /\ inner' = inner /\ reloadQ' = reloadQ
       /\ (handler.pc = "send" /\ handler.job = ReloadConfiguration /\ handler' # handler)
             => /\ Len(reloadQ') = Len(reloadQ) + 1
                /\ SubSeq(reloadQ', 1, Len(reloadQ)) = reloadQ
                /\ reloadQ'[Len(reloadQ')].job = ReloadConfiguration
                /\ handler'.pc = "recv"
                /\ inner' = inner
       /\ (app.hpc = "recv" /\ app.evq # <<>> /\ Head(app.evq).ty = "ConfigSaved"
             /\ app'.evq # app.evq /\ Len(app'.evq) < Len(app.evq))
             => /\ app'.hpc = "send" /\ app'.queue = app.queue
                /\ app'.state = app.state
       /\ (app.hpc = "send" /\ app.hev.ty = "ConfigSaved" /\ app'.hpc # "send")
             => /\ app'.queue = Append(app.queue, "Configuration")
                /\ app'.hpc = "recv"
                /\ app'.state = app.state]_vars

C31_Witness ==
    /\ handler.pc = "recv" /\ hist.handled > 0
    /\ reloadQ # <<>> /\ reloadQ[Len(reloadQ)].job = ReloadConfiguration
    /\ app.hpc = "recv"
    /\ app.queue # <<>> /\ app.queue[Len(app.queue)] = "Configuration"
    /\ inner = SteadyInner

\* C32: handling a remote-download-progress event of device D enqueues
\* exactly one Completion reload for D without a folder, and the successful
\* merge of such a job shows D as UpToDate for a completion of 100 and as
\* Syncing(completion) otherwise
C32_ProgressReloadsCompletion ==
    [][/\ (last'.step = "RemoteDownloadProgress")
             => /\ handler' = [pc |-> "send", job |-> ReloadCompletion(None, last'.id)]
                /\ reloadQ' = reloadQ /\ inner' = inner
       /\ (handler.pc = "send" /\ handler.job.kind = "Completion" /\ handler' # handler)
             => /\ Len(reloadQ') = Len(reloadQ) + 1
                /\ SubSeq(reloadQ', 1, Len(reloadQ)) = reloadQ
                /\ reloadQ'[Len(reloadQ')].job = handler.job
       /\ \A d \in DeviceIds :
             (Merged("Completion") /\ last'.job = ReloadCompletion(None, d)
                /\ get_device_mut(inner, d) # 0)
             => /\ inner'.devices[get_device_mut(inner, d)].connected
                      = IF worker.resp.val = 100 THEN UpToDate
                        ELSE Syncing(worker.resp.val)
                /\ inner' = SetConnected(inner, d, inner'.devices[get_device_mut(inner, d)].connected)]_vars

\* the Completion reload of a progress event (no Connections reload has
\* run yet) was merged with an answer of 50 and with an answer of 100
C32_WitnessSyncing ==
    /\ last.step = "WorkerMerge" /\ last.ok
    /\ last.job = ReloadCompletion(None, "devY")
    /\ CopiesIn(ReloadConnections, hist.done) = 0
    /\ \E i \in DOMAIN daemon.events : daemon.events[i] = Event("RemoteDownloadProgress", "devY")
    /\ ShownConnected(inner, "devY")
    /\ inner.devices[get_device_mut(inner, "devY")].connected = Syncing(50)

\* s is an initial part of t
IsPrefix(s, t) == Len(s) <= Len(t) /\ SubSeq(t, 1, Len(s)) = s

\* C33: an event of a kind without a match arm is appended to the event
\* log of the store and enqueues no reload; the log only grows and keeps
\* the order of arrival (for State and for App)
C33_OtherEventsLogged ==
    [][/\ (last'.step \in OtherKinds)
             => /\ inner'.events = Append(inner.events, Head(eventCh))
                /\ handler' = handler /\ reloadQ' = reloadQ
       /\ (app.hpc = "recv" /\ app.evq # <<>> /\ Head(app.evq).ty \in OtherKinds
             /\ Len(app'.evq) < Len(app.evq))
             => /\ app'.events = Append(app.events, Head(app.evq))
                /\ app'.hpc = "recv" /\ app'.queue = app.queue
       /\ IsPrefix(inner.events, inner'.events)
       /\ IsPrefix(app.events, app'.events)]_vars

\* a Completion job that names a folder and a device
FolderAndDevice(job) ==
    job.kind = "Completion" /\ job.folder_id # None /\ job.device_id # None

\* C34: no Completion job with both a folder and a device is requested,
\* queued or executed, and the reload worker never aborts
C34_NoFolderAndDeviceCompletion ==
    /\ \A job \in BagToSet(sending) : ~FolderAndDevice(job)
    /\ \A i \in DOMAIN reloadQ : ~FolderAndDevice(reloadQ[i].job)
    /\ worker.pc # "recv" => ~FolderAndDevice(worker.job)
    /\ handler.pc = "send" => ~FolderAndDevice(handler.job)
    /\ worker.pc # "panicked"

\* the worker has merged a Completion reload of a folder and one of a
\* device, the latter requested by a progress event, and waits for more
C34_Witness ==
    /\ worker.pc = "recv"
    /\ CopiesIn(ReloadCompletion("f1", None), hist.done) > 0
    /\ CopiesIn(ReloadCompletion(None, "devY"), hist.done) > 0
    /\ \E i \in 1..hist.handled : daemon.events[i].ty = "RemoteDownloadProgress"

\* the fields of the store a reload fills
Content(st) == <<st.folders, st.devices, st.pending_devices, st.pending_folders, st.id>>

\* C35: a reload whose gateway call failed leaves folders, devices, the
\* pending lists and the local ID of the store as they were (for State and
\* for App)
C35_FailedReloadKeepsStore ==
    [][/\ (last'.step = "WorkerMerge" /\ ~last'.ok) => Content(inner') = Content(inner)
       /\ (last'.step = "AppMerge" /\ ~last'.ok)
             => Content(app'.state) = Content(app.state)]_vars

\* a reload failed after the Configuration and the pending lists were loaded
C35_Witness ==
    /\ last.step = "WorkerMerge" /\ ~last.ok
    /\ inner.devices # <<>> /\ inner.folders # <<>>
    /\ inner.pending_devices # <<>>

\* the stores agree on every field outside F
SameBut(a, b, F) == \A k \in DOMAIN a \ F : a[k] = b[k]

\* the device lists agree but for the connection status of their entries
StatusOnly(a, b) ==
    /\ Len(a.devices) = Len(b.devices)
    /\ \A i \in DOMAIN a.devices :
          [a.devices[i] EXCEPT !.connected = b.devices[i].connected] = b.devices[i]

\* the folder lists agree but for the completion of folder f
CompletionOnly(a, b, f) ==
    /\ Len(a.folders) = Len(b.folders)
    /\ \A i \in DOMAIN a.folders :
          /\ [a.folders[i] EXCEPT !.completion = b.folders[i].completion] = b.folders[i]
          /\ a.folders[i].id # f => a.folders[i] = b.folders[i]

\* C36: a successful reload changes only its own part of the store
C36_ReloadChangesOwnPart ==
    [][(last'.step = "WorkerMerge" /\ last'.ok) =>
          CASE last'.job.kind = "ID" -> SameBut(inner, inner', {"id"})
            [] last'.job.kind = "Configuration" -> SameBut(inner, inner', {"folders", "devices"})
            [] last'.job.kind = "PendingDevices" -> SameBut(inner, inner', {"pending_devices"})
            [] last'.job.kind = "PendingFolders" -> SameBut(inner, inner', {"pending_folders"})
            [] last'.job.kind = "Connections" ->
                  SameBut(inner, inner', {"devices"}) /\ StatusOnly(inner, inner')
            [] last'.job.kind = "Completion" /\ last'.job.device_id # None ->
                  SameBut(inner, inner', {"devices"}) /\ StatusOnly(inner, inner')
            [] last'.job.kind = "Completion" /\ last'.job.device_id = None ->
                  /\ SameBut(inner, inner', {"folders"})
                  /\ CompletionOnly(inner, inner', last'.job.folder_id)]_vars

\* every kind of reload has been merged into a store that holds folders,
\* devices and both pending lists, the last one changing a folder
C36_Witness ==
    /\ \A job \in {ReloadID, ReloadConfiguration, ReloadPendingDevices,
                   ReloadPendingFolders, ReloadConnections,
                   ReloadCompletion(None, "devY"), ReloadCompletion("f1", None)} :
          CopiesIn(job, hist.done) > 0
    /\ inner.pending_devices # <<>> /\ inner.pending_folders # <<>>
    /\ \E i \in DOMAIN inner.folders : inner.folders[i].completion = 50
    /\ ShownConnected(inner, "devY")

\* no element occurs twice in s
NoRepeat(s) == \A i, j \in DOMAIN s : s[i] = s[j] => i = j

\* C37: the devices a folder of the store is shared with form a set: no
\* device ID occurs twice in the device list of a folder
C37_SharersFormASet ==
    \A i \in DOMAIN inner.folders : NoRepeat(inner.folders[i].devices)

\* C38: PendingPageState::update completes for every message and all
\* counts, and after Up or Down the index of the focused list is below the
\* length of that list and an empty list has no index
C38_PendingIndicesValid ==
    last.step = "update_pending" =>
       /\ app.ui = "running"
       /\ last.id \in {"Up", "Down"} =>
             LET ps == app.pending_state IN
             /\ (ps.devices_focused /\ app.counts.devices > 0)
                   => ps.focused_device # <<>> /\ ps.focused_device[1] < app.counts.devices
             /\ (~ps.devices_focused /\ app.counts.folders > 0)
                   => ps.focused_folder # <<>> /\ ps.focused_folder[1] < app.counts.folders
             /\ app.counts.devices = 0 => ps.focused_device = <<>>
             /\ app.counts.folders = 0 => ps.focused_folder = <<>>

\* C39: no sequence of messages drives App::update into a todo!() or an
\* unimplemented!() branch
C39_NoUnimplementedBranch == app.ui # "unimplemented"

\* C40: on the devices screen the device whose details are shown is the
\* device of the highlighted row (devices_block and DevicesPage::render)
C40_DetailIsHighlightedDevice ==
    /\ devices_block_row(app) # <<>> => devices_block_detail(app) = devices_block_row(app)
    /\ DevicesPage_row(inner, app.selected_device) # <<>>
          => DevicesPage_detail(inner, app.selected_device)
                = DevicesPage_row(inner, app.selected_device)

====
